---- MODULE Spec2Model ----
(***************************************************************************)
(* Client-side session and data-orchestration layer of the Core Service    *)
(* frontend: the session store and API gateway (services/api.js, kept in   *)
(* App.jsx), the AuthProvider (context/AuthContext, kept in Home.jsx) and  *)
(* the Home view-model (Home.jsx), the Datasets view (Datasets.jsx) and    *)
(* the Home view with a free-form configuration (unnamed/part_000).        *)
(*                                                                         *)
(* JavaScript strings are strings, a + b is a \o b; the Russian literals   *)
(* of the source are transliterated.                                       *)
(***************************************************************************)
EXTENDS Integers, Sequences, FiniteSets, TLC

VARIABLES
    \* ---- session store, AuthProvider, requests on the wire
    token,            \* localStorage['coreServiceToken'], Absent when the key is missing
    isAuthenticated,  \* AuthProvider state
    authIsLoading,    \* AuthProvider state isLoading
    net,              \* requests issued through the gateway and not yet answered
    authEvent,        \* the last thing that happened in the session layer
    sinceLogout,      \* a logout happened and no login has been accepted since
    location,         \* the router's location.pathname
    redirectTimers,   \* Register's setTimeout(() => navigate('/login'), 2000) calls not yet fired
    \* ---- Home view (Home.jsx): React state
    runs, datasets, isLoading, isLoadingRuns, isLoadingDatasets, error, success,
    datasetId, modelOptions, selectedModel, paramValues, isLoadingModels,
    \* ---- Home view: asynchronous handlers in progress
    homePc,           \* "constructed" before the mount effect, then "mounted"
    runsReqs,         \* getRuns calls in flight, each with the caller that issued it
    runsOvertaken,    \* history of the run-list responses: how many of the calls in flight were
                      \* issued before a call whose list has been applied
    datasetsReqs,     \* getDatasets calls in flight
    modelsReqs,       \* getModels calls in flight, each with the selectedModel its closure saw
    submitPc,         \* handleSubmit: "idle", "creating" (awaits createRun), "reloading" (awaits loadRuns)
    createReq,        \* the body of the createRun call in flight or last sent
    downloads,        \* artifact downloads in flight
    homeEvent,        \* the last thing that happened in the mounted view
    \* ---- the Datasets view and the Home view with a free-form configuration;
    \* ---- the states they declare under Home's names are the variables above
    mounted,          \* the view whose state the variables hold: "none", "Home", "HomeRuns" (Home with its
                      \* run list in use), "Datasets", "HomeByUser"
    datasetName,      \* Datasets state
    file,             \* Datasets state: the chosen File, NoFile for null
    userId,           \* Datasets / Home state: the current user's id, NoUser for null
    userReqs,         \* getCurrentUser calls in flight
    configuration,    \* the user-first Home view's state: the text of the configuration field
    \* ---- a pure function applied to an argument
    fnArg, fnResult,
    fnPc              \* "idle", "ready" (the argument is chosen), "done" (the result is computed)

sessVars == <<token, isAuthenticated, authIsLoading, net, authEvent, sinceLogout, location,
              redirectTimers>>

homeState == <<runs, datasets, isLoading, isLoadingRuns, isLoadingDatasets, error, success,
               datasetId, modelOptions, selectedModel, paramValues, isLoadingModels>>

homeAsync == <<homePc, runsReqs, runsOvertaken, datasetsReqs, modelsReqs, submitPc, createReq, downloads,
               homeEvent>>

homeVars == <<homeState, homeAsync>>

pageVars == <<mounted, datasetName, file, userId, userReqs, configuration>>

fnVars == <<fnArg, fnResult, fnPc>>

\* what a session step leaves alone, and what a step of the Home view leaves alone
outsideSession == <<homeVars, pageVars, fnVars>>

outsideHome == <<sessVars, pageVars, fnVars>>

vars == <<sessVars, homeVars, pageVars, fnVars>>

-----------------------------------------------------------------------------
(* Bounds and input sets *)

MaxInFlight == 2

Absent == "<absent>"

AccessTokens == {"t1", "t2"}

StoredValues == AccessTokens \cup {Absent}

NoDetail == ""

Details == {NoDetail, "detail from server"}

-----------------------------------------------------------------------------
(* JavaScript helpers *)

\* Boolean(x) of a stored value: null and '' are falsy
Boolean(v) == v # Absent /\ v # ""

\* a || b on message strings
OrElse(a, b) == IF a # "" THEN a ELSE b

\* { ...a, ...b }
Spread(a, b) == b @@ a

NoHeaders == <<>>

Bearer(t) == "Bearer " \o t

HasAuthorization(h) == "Authorization" \in DOMAIN h

-----------------------------------------------------------------------------
(* services/api.js *)

getAuthHeadersFixed(tok) == IF Boolean(tok) THEN "Authorization" :> Bearer("t1") ELSE NoHeaders

getAuthHeaders(tok) ==
    IF Boolean(tok) THEN "Authorization" :> Bearer(tok) ELSE NoHeaders

ContentType(v) == "Content-Type" :> v

\* the headers each service function passes to fetch
registerHeaders(tok) == ContentType("application/json")

loginHeaders(tok) == ContentType("application/x-www-form-urlencoded")

getCurrentUserHeaders(tok) == getAuthHeaders(tok)

uploadDatasetHeaders(tok) == getAuthHeaders(tok)

getDatasetsHeaders(tok) == getAuthHeaders(tok)

createRunHeaders(tok) == Spread(ContentType("application/json"), getAuthHeaders(tok))

getRunsHeaders(tok) == getAuthHeaders(tok)

\* uploadDataset and getDatasets throw before fetch when there is no header
RequiresAuthorization(op) == op \in {"uploadDataset", "getDatasets"}

MsgAuthRequired == "Trebuetsya avtorizatsiya"

HeadersOf(op, tok) ==
    CASE op = "register"       -> registerHeaders(tok)
      [] op = "login"          -> loginHeaders(tok)
      [] op = "getCurrentUser" -> getCurrentUserHeaders(tok)
      [] op = "uploadDataset"  -> uploadDatasetHeaders(tok)
      [] op = "getDatasets"    -> getDatasetsHeaders(tok)
      [] op = "createRun"      -> createRunHeaders(tok)
      [] op = "getRuns"        -> getRunsHeaders(tok)

\* the fallback message of each service function for a non-ok response
Fallback(op) ==
    CASE op = "register"       -> "Ne udalos zaregistrirovat polzovatelya"
      [] op = "login"          -> "Nevernye uchetnye dannye"
      [] op = "getCurrentUser" -> "Ne udalos poluchit informatsiyu o polzovatele"
      [] op = "uploadDataset"  -> "Ne udalos zagruzit dataset"
      [] op = "getDatasets"    -> "Ne udalos poluchit spisok datasetov"
      [] op = "createRun"      -> "Ne udalos sozdat zapusk"
      [] op = "getRuns"        -> "Ne udalos poluchit spisok zapuskov"

\* throw new Error(error.detail || fallback)
ErrorMessageFallbackOnly(op, detail) == Fallback(op)

\* new Error(error.detail || fallback): the message the service function throws
ErrorMessage(op, detail) == OrElse(detail, Fallback(op))

authServiceLogoutKeeps(tok) == tok

\* authService.logout: localStorage.removeItem
authServiceLogout(tok) == Absent

\* authService.isAuthenticated: Boolean(this.getToken())
authServiceIsAuthenticatedNever(tok) == FALSE

authServiceIsAuthenticated(tok) == Boolean(tok)

authServiceLoginStoreNothing(tok, accessToken) == tok

\* authService.login after an ok response: localStorage.setItem
authServiceLoginStore(tok, accessToken) == accessToken

-----------------------------------------------------------------------------
(* Requests on the wire.  tokenAtIssue and sinceLogout record the session  *)
(* at the moment fetch was called.                                         *)

Request(op, view) ==
    [op |-> op, view |-> view, headers |-> HeadersOf(op, token),
     tokenAtIssue |-> token, sinceLogout |-> sinceLogout]

Event(kind, op, status, tok, msg) ==
    [kind |-> kind, op |-> op, status |-> status, tok |-> tok, msg |-> msg]

\* the handlers whose awaits all sit inside a try block with a catch
TryBlocks ==
    {"AuthProvider.login", "AuthProvider.register",
     "Home.loadRuns", "Home.loadDatasets", "Home.loadModelOptions", "Home.handleSubmit",
     "Home.handleDownload",
     "Datasets.loadUserAndDatasets", "Datasets.loadDatasets", "Datasets.handleSubmit",
     "HomeByUser.handleSubmit",
     "HomeByUser.loadUserAndData"}

CaughtUnlessSubmit(handler) == handler \in TryBlocks \ {"Home.handleSubmit"}

\* a rejection inside the handler reaches its catch
Caught(handler) == handler \in TryBlocks

\* how a failed await ends: in the handler's catch (kind), or as a rejection of
\* the handler's own promise
Settled(handler, kind) == IF Caught(handler) THEN kind ELSE "unhandledRejection"

RemoveAt(s, i) == [j \in 1..(Len(s) - 1) |-> IF j < i THEN s[j] ELSE s[j + 1]]

HasRoom == Len(net) < MaxInFlight

InFlight(op) == \E i \in 1..Len(net) : net[i].op = op

\* responses of the control API and the artifact API
StatusOk == 200

StatusUnauthorized == 401

StatusServerError == 500

FailureStatuses == {StatusUnauthorized, StatusServerError}

-----------------------------------------------------------------------------
(* App.jsx AppRoutes and ProtectedRoute: the element rendered for a path *)

MaxTimers == 1

\* a path of each route, "/elsewhere" for path="*"
Paths == {"/", "/datasets", "/login", "/register", "/elsewhere"}

ProtectedPaths == {"/", "/datasets"}

Navigate(to) == [element |-> "Navigate", to |-> to]

Page(name) == [element |-> "Page", to |-> name]

Placeholder == [element |-> "Placeholder", to |-> ""]

ProtectedRouteOpen(children, loading, authed) ==
    IF loading THEN Placeholder ELSE children

ProtectedRoute(children, loading, authed) ==
    IF loading THEN Placeholder
    ELSE IF ~authed THEN Navigate("/login")
    ELSE children

AppRoutes(path, loading, authed) ==
    CASE path = "/login"    -> IF authed THEN Navigate("/") ELSE Page("Login")
      [] path = "/register" -> IF authed THEN Navigate("/") ELSE Page("Register")
      [] path = "/"         -> ProtectedRoute(Page("Home"), loading, authed)
      [] path = "/datasets" -> ProtectedRoute(Page("Datasets"), loading, authed)
      [] OTHER              -> Navigate("/")

\* what the router renders now
Element == AppRoutes(location, authIsLoading, isAuthenticated)

\* no <Navigate> is rendered: the effect of a rendered <Navigate> runs in the
\* commit that rendered it, before any other event is handled
Committed == Element.element # "Navigate"

-----------------------------------------------------------------------------
SessInit ==
    /\ token \in StoredValues
    /\ isAuthenticated = FALSE
    /\ authIsLoading = TRUE
    /\ net = <<>>
    /\ authEvent = Event("init", "", 0, Absent, "")
    /\ sinceLogout = FALSE
    /\ location \in Paths
    /\ redirectTimers = 0

\* AuthProvider's mount effect
AuthProviderMount ==
    /\ authIsLoading
    /\ isAuthenticated' = authServiceIsAuthenticated(token)
    /\ authIsLoading' = FALSE
    /\ authEvent' = Event("mount", "", 0, Absent, "")
    /\ UNCHANGED <<token, net, sinceLogout, location, redirectTimers>>
    /\ UNCHANGED outsideSession

\* AppRoutes: /login and /register render their page unless authenticated.
\* The provider's mount effect runs before any user event is dispatched.
PublicPageRendered == ~authIsLoading /\ ~isAuthenticated

\* ProtectedRoute
ProtectedRendered == ~authIsLoading /\ isAuthenticated

\* Login.handleSubmit -> AuthProvider.login -> authService.login, up to fetch
LoginSubmit ==
    /\ Committed
    /\ PublicPageRendered
    /\ Element = Page("Login")
    /\ ~InFlight("login")           \* the submit button is disabled while isLoading
    /\ HasRoom
    /\ net' = Append(net, Request("login", "login"))
    /\ authEvent' = Event("sent", "login", 0, Absent, "")
    /\ UNCHANGED <<token, isAuthenticated, authIsLoading, sinceLogout, location, redirectTimers>>
    /\ UNCHANGED outsideSession

\* AuthProvider.login after authService.login resolved
AuthProviderLoginFlag(flag) == TRUE

\* the response of POST /auth/login reaches authService.login and AuthProvider.login
LoginResponse(i, ok, accessToken, detail) ==
    /\ Committed
    /\ i \in 1..Len(net)
    /\ net[i].op = "login"
    /\ net' = RemoveAt(net, i)
    /\ IF ok
       THEN /\ token' = authServiceLoginStore(token, accessToken)
            /\ isAuthenticated' = AuthProviderLoginFlag(isAuthenticated)
            /\ sinceLogout' = FALSE
            /\ location' = "/"                      \* Login.handleSubmit: navigate('/')
            /\ authEvent' = Event("loginOk", "login", StatusOk, accessToken, "")
       ELSE /\ authEvent' = Event(Settled("AuthProvider.login", "loginFailed"), "login", StatusUnauthorized, Absent,
                                  ErrorMessage("login", detail))
            /\ UNCHANGED <<token, isAuthenticated, sinceLogout, location>>
    /\ UNCHANGED <<authIsLoading, redirectTimers>>
    /\ UNCHANGED outsideSession

\* Register.handleSubmit -> AuthProvider.register -> authService.register, up to fetch
RegisterSubmit ==
    /\ Committed
    /\ PublicPageRendered
    /\ Element = Page("Register")
    /\ redirectTimers < MaxTimers
    /\ ~InFlight("register")
    /\ HasRoom
    /\ net' = Append(net, Request("register", "register"))
    /\ authEvent' = Event("sent", "register", 0, Absent, "")
    /\ UNCHANGED <<token, isAuthenticated, authIsLoading, sinceLogout, location, redirectTimers>>
    /\ UNCHANGED outsideSession

authServiceRegisterStoreLogsIn(tok) == "t1"

\* authService.register after an ok response: it returns the body and stores nothing
authServiceRegisterStore(tok) == tok

\* the response of POST /auth/register reaches authService.register,
\* AuthProvider.register and Register.handleSubmit
RegisterResponse(i, ok, detail) ==
    /\ Committed
    /\ i \in 1..Len(net)
    /\ net[i].op = "register"
    /\ net' = RemoveAt(net, i)
    /\ token' = IF ok THEN authServiceRegisterStore(token) ELSE token
    /\ redirectTimers' = IF ok THEN redirectTimers + 1 ELSE redirectTimers
    /\ authEvent' = IF ok
                    THEN Event("registerOk", "register", StatusOk, Absent, "")
                    ELSE Event(Settled("AuthProvider.register", "registerFailed"), "register", 400, Absent,
                               ErrorMessage("register", detail))
    /\ UNCHANGED <<isAuthenticated, authIsLoading, sinceLogout, location>>
    /\ UNCHANGED outsideSession

AuthProviderLogoutFlagKeeps(flag) == flag

\* AuthProvider.logout: setIsAuthenticated(false)
AuthProviderLogoutFlag(flag) == FALSE

\* Layout's logout button, shown while isAuthenticated
Logout ==
    /\ Committed
    /\ isAuthenticated
    /\ token' = authServiceLogout(token)
    /\ isAuthenticated' = AuthProviderLogoutFlag(isAuthenticated)
    /\ sinceLogout' = TRUE
    /\ authEvent' = Event("logout", "", 0, Absent, "")
    /\ UNCHANGED <<authIsLoading, net, location, redirectTimers>>
    /\ UNCHANGED outsideSession

\* a service function called by a view: throws before fetch, or calls fetch
Call(op, view) ==
    IF RequiresAuthorization(op) /\ ~HasAuthorization(HeadersOf(op, token))
    THEN /\ authEvent' = Event("rejectedLocally", op, 0, Absent, MsgAuthRequired)
         /\ net' = net
    ELSE /\ authEvent' = Event("sent", op, 0, Absent, "")
         /\ net' = Append(net, Request(op, view))

\* the calls the protected views make from a mount effect or a user action:
\* Home.loadRuns, Home.loadDatasets, Home.handleSubmit,
\* Datasets.loadUserAndDatasets, Datasets.handleSubmit
ViewCalls ==
    {<<"getRuns", "home">>, <<"getDatasets", "home">>, <<"createRun", "home">>,
     <<"getCurrentUser", "datasets">>, <<"uploadDataset", "datasets">>}

ViewCall(c) ==
    /\ Committed
    /\ c \in ViewCalls
    /\ ProtectedRendered
    /\ Element = Page(IF c[2] = "home" THEN "Home" ELSE "Datasets")
    /\ HasRoom
    /\ Call(c[1], c[2])
    /\ UNCHANGED <<token, isAuthenticated, authIsLoading, sinceLogout, location, redirectTimers>>
    /\ UNCHANGED outsideSession

\* what a handler calls next when its request succeeded:
\* Home.handleSubmit awaits loadRuns, Datasets.loadUserAndDatasets and
\* Datasets.handleSubmit await loadDatasets
Continuation(r) ==
    CASE r.op = "createRun"      -> "getRuns"
      [] r.op = "getCurrentUser" -> "getDatasets"
      [] r.op = "uploadDataset"  -> "getDatasets"
      [] OTHER                   -> ""

\* the response of a protected call; the handler's catch turns a failure into the
\* view's error message
ViewResponse(i, status, detail) ==
    /\ Committed
    /\ i \in 1..Len(net)
    /\ net[i].op \notin {"login", "register"}
    /\ IF status = StatusOk
       THEN IF Continuation(net[i]) # ""
            THEN LET next == Continuation(net[i]) IN
                 IF RequiresAuthorization(next) /\ ~HasAuthorization(HeadersOf(next, token))
                 THEN /\ authEvent' = Event("rejectedLocally", next, 0, Absent, MsgAuthRequired)
                      /\ net' = RemoveAt(net, i)
                 ELSE /\ authEvent' = Event("sent", next, 0, Absent, "")
                      /\ net' = Append(RemoveAt(net, i), Request(next, net[i].view))
            ELSE /\ authEvent' = Event("ok", net[i].op, StatusOk, Absent, "")
                 /\ net' = RemoveAt(net, i)
       ELSE /\ authEvent' = Event("failed", net[i].op, status, Absent,
                                  ErrorMessage(net[i].op, detail))
            /\ net' = RemoveAt(net, i)
    /\ UNCHANGED <<token, isAuthenticated, authIsLoading, sinceLogout, location, redirectTimers>>
    /\ UNCHANGED outsideSession

\* the page is loaded again: the script state is rebuilt, localStorage stays
PageReload ==
    /\ Committed
    /\ ~authIsLoading
    /\ isAuthenticated' = FALSE
    /\ authIsLoading' = TRUE
    /\ net' = <<>>
    /\ redirectTimers' = 0
    /\ authEvent' = Event("init", "", 0, Absent, "")
    /\ UNCHANGED <<token, sinceLogout, location>>
    /\ UNCHANGED outsideSession

\* a path is opened in the address bar or through an <a href>: the page is
\* loaded at that path
OpenUrl(path) ==
    /\ Committed
    /\ ~authIsLoading
    /\ path \in Paths \ {location}
    /\ location' = path
    /\ isAuthenticated' = FALSE
    /\ authIsLoading' = TRUE
    /\ net' = <<>>
    /\ redirectTimers' = 0
    /\ authEvent' = Event("init", "", 0, Absent, "")
    /\ UNCHANGED <<token, sinceLogout>>
    /\ UNCHANGED outsideSession

\* Layout's header: the title navigates to /, the two buttons shown while
\* isAuthenticated navigate to / and /datasets
LayoutNavigate(path) ==
    /\ Committed
    /\ ~authIsLoading
    /\ path \in (IF isAuthenticated THEN {"/", "/datasets"} ELSE {"/"}) \ {location}
    /\ location' = path
    /\ authEvent' = Event("navigate", location, 0, Absent, path)
    /\ UNCHANGED <<token, isAuthenticated, authIsLoading, net, sinceLogout, redirectTimers>>
    /\ UNCHANGED outsideSession

\* the effect of a rendered <Navigate to=... replace />
RouterRedirect ==
    /\ Element.element = "Navigate"
    /\ location' = Element.to
    /\ authEvent' = Event("redirect", location, 0, Absent, Element.to)
    /\ UNCHANGED <<token, isAuthenticated, authIsLoading, net, sinceLogout, redirectTimers>>
    /\ UNCHANGED outsideSession

\* Register's timer fires: navigate('/login')
RegisterTimer ==
    /\ Committed
    /\ redirectTimers > 0
    /\ redirectTimers' = redirectTimers - 1
    /\ location' = "/login"
    /\ authEvent' = Event("navigate", location, 0, Absent, "/login")
    /\ UNCHANGED <<token, isAuthenticated, authIsLoading, net, sinceLogout>>
    /\ UNCHANGED outsideSession

-----------------------------------------------------------------------------
(* Home view: data the backends answer with *)

MaxRunsInFlight == 2

MaxDownloads == 1

\* JavaScript values of a ParamSpec's default and options
Num(tenths) == [type |-> "number", tenths |-> tenths]

Str(s) == [type |-> "string", s |-> s]

Bool(b) == [type |-> "boolean", b |-> b]

Null == [type |-> "null"]

Undefined == [type |-> "undefined"]

Param(name, type, default, options) ==
    [name |-> name, type |-> type, default |-> default, options |-> options]

LinearRegression ==
    [name |-> "linear_regression",
     parameters |-> << Param("alpha", "number", Num(10), <<>>),
                       Param("fit_intercept", "bool", Bool(TRUE), <<Bool(TRUE), Bool(FALSE)>>) >>]

Ridge ==
    [name |-> "ridge",
     parameters |-> << Param("alpha", "number", Num(5), <<>>),
                       Param("solver", "enum", Null, <<Str("auto")>>) >>]

\* bodies of GET /models: { models: [...] }, or a body without the field
NoModelsField == [other |-> TRUE]

ModelResponses == {[models |-> <<LinearRegression, Ridge>>], [models |-> <<>>], NoModelsField}

Run(id, status) == [id |-> id, status |-> status]

RunLists == {<<>>, <<Run(2, "completed"), Run(1, "failed")>>}

NewRuns == {Run(3, "in queue")}

\* the run lists of the user who downloads artifacts: one response holds a
\* run of every status
ArtifactRunLists ==
    RunLists \cup {<<Run(4, "in queue"), Run(3, "processing"), Run(2, "completed"), Run(1, "failed")>>}

Dataset(id, name) == [id |-> id, name |-> name]

DatasetLists == {<<>>, <<Dataset(1, "Sales")>>}

\* what the user can type into a number input
NumberInputs == {"2"}

ArtifactKinds == {"model", "results"}

StatusNotFound == 404

\* String(x)
Digit(d) ==
    CASE d = 0 -> "0" [] d = 1 -> "1" [] d = 2 -> "2" [] d = 3 -> "3" [] d = 4 -> "4"
      [] d = 5 -> "5" [] d = 6 -> "6" [] d = 7 -> "7" [] d = 8 -> "8" [] d = 9 -> "9"

RECURSIVE NatToString(_)
NatToString(n) == IF n < 10 THEN Digit(n) ELSE NatToString(n \div 10) \o Digit(n % 10)

NumberToStringFixed(tenths) ==
    NatToString(tenths \div 10) \o "." \o Digit(tenths % 10)

\* a number with one decimal digit, held in tenths: 1.0 prints as "1", 0.5 as "0.5"
NumberToString(tenths) ==
    IF tenths % 10 = 0
    THEN NatToString(tenths \div 10)
    ELSE NatToString(tenths \div 10) \o "." \o Digit(tenths % 10)

String(v) ==
    CASE v.type = "number"    -> NumberToString(v.tenths)
      [] v.type = "string"    -> v.s
      [] v.type = "boolean"   -> IF v.b THEN "true" ELSE "false"
      [] v.type = "null"      -> "null"
      [] v.type = "undefined" -> "undefined"

\* Number(s) of the strings the dataset select holds; Number('') is 0
MaxId == 9

Number(s) == IF s = "" THEN 0 ELSE CHOOSE n \in 0..MaxId : NatToString(n) = s

-----------------------------------------------------------------------------
(* Home.jsx: pure helpers *)

EmptyObject == <<>>

\* { ...obj, [key]: value }
With(obj, key, value) ==
    [k \in DOMAIN obj \cup {key} |-> IF k = key THEN value ELSE obj[k]]

\* array.find(model => model.name === name): the first match, or NotFound
NotFound == [undefined |-> TRUE]

RECURSIVE Find(_, _)
Find(models, name) ==
    IF models = <<>> THEN NotFound
    ELSE IF Head(models).name = name THEN Head(models)
    ELSE Find(Tail(models), name)

DefaultValueNullText(param) == String(param.default)

\* param.default === null || param.default === undefined ? '' : String(param.default)
DefaultValue(param) ==
    IF param.default.type \in {"null", "undefined"} THEN "" ELSE String(param.default)

RECURSIVE ReduceDefaults(_, _)
ReduceDefaults(params, acc) ==
    IF params = <<>> THEN acc
    ELSE ReduceDefaults(Tail(params), With(acc, Head(params).name, DefaultValue(Head(params))))

buildDefaultValuesKeepOld(model, old) ==
    IF model = NotFound THEN EmptyObject ELSE ReduceDefaults(model.parameters, old)

\* buildDefaultValues, as called by handleModelChange and loadModelOptions
\* (old is the mapping before the call, which the code does not read)
buildDefaultValuesFrom(model, old) ==
    IF model = NotFound THEN EmptyObject ELSE ReduceDefaults(model.parameters, EmptyObject)

buildDefaultValues(model) == buildDefaultValuesFrom(model, EmptyObject)

buildHyperparametersNonEmpty(values) ==
    [k \in {n \in DOMAIN values : values[n] # ""} |-> values[k]]

\* buildHyperparameters: ({ ...paramValues })
buildHyperparameters(values) == [k \in DOMAIN values |-> values[k]]

paramUpdateRebuild(prev, name, value) == With(EmptyObject, name, value)

\* handleParamChange's updater: (prev) => ({ ...prev, [name]: value })
paramUpdate(prev, name, value) == With(prev, name, value)

MsgSelectDataset == "Vyberite dataset"

MsgSelectModel == "Vyberite model"

submitValidationNoDataset(dsId, selModel, models) ==
    IF selModel = "" THEN MsgSelectModel
    ELSE IF Find(models, selModel) = NotFound THEN MsgSelectModel
    ELSE ""

\* handleSubmit's checks before the network call: the message it sets, or ''
submitValidation(dsId, selModel, models) ==
    IF dsId = "" THEN MsgSelectDataset
    ELSE IF selModel = "" THEN MsgSelectModel
    ELSE IF Find(models, selModel) = NotFound THEN MsgSelectModel
    ELSE ""

\* `Запуск #${run.id} создан со статусом "${run.status}"`
successMessage(run) ==
    "Zapusk #" \o NatToString(run.id) \o " sozdan so statusom \"" \o run.status \o "\""

MsgNotYetAvailable(kind, runId) ==
    IF kind = "model"
    THEN "Model dlya zapuska #" \o NatToString(runId) \o " poka ne dostupna"
    ELSE "Rezultaty dlya zapuska #" \o NatToString(runId) \o " poka ne dostupny"

MsgDownloadFailed(kind) ==
    IF kind = "model" THEN "Ne udalos skachat model" ELSE "Ne udalos skachat rezultaty"

downloadErrorMessageNo404(kind, runId, err) == OrElse(err.message, MsgDownloadFailed(kind))

\* the catch of handleDownloadModel / handleDownloadResults
downloadErrorMessage(kind, runId, err) ==
    IF err.status = StatusNotFound
    THEN MsgNotYetAvailable(kind, runId)
    ELSE OrElse(err.message, MsgDownloadFailed(kind))

\* artifactsService: a non-2xx response fails with ApiError{ message, status }
MsgArtifactFallback == "Ne udalos skachat fail"

ApiError(status, detail) == [status |-> status, message |-> OrElse(detail, MsgArtifactFallback)]

\* trainService.getModels: the message of its error
MsgModelsFallback == "Ne udalos poluchit spisok modelei"

ModelsErrorMessage(detail) == OrElse(detail, MsgModelsFallback)

\* loadModelOptions: models.find(m => m.name === selectedModel)?.name || models[0].name
nextModelLast(models, seen) == models[Len(models)].name

nextModelOf(models, seen) ==
    LET found == Find(models, seen)
    IN  IF found # NotFound /\ found.name # "" THEN found.name ELSE models[1].name

loadDatasetsCallNot(reqs, caller) == reqs

\* loadDatasets up to its await: datasetsService.getDatasets() is on the wire
loadDatasetsCall(reqs, caller) == Append(reqs, caller)

loadRunsCatchRetry(reqs, caller) == Append(reqs, caller)

\* the catch of loadRuns: the calls on the wire after it (it issues none)
loadRunsCatch(reqs, caller) == reqs

loadRunsCallNot(reqs, caller) == reqs

\* loadRuns up to its await: runsService.getRuns() is on the wire
loadRunsCall(reqs, caller) == Append(reqs, caller)

-----------------------------------------------------------------------------
(* Home.jsx: what is rendered *)

selectedModelSpec == Find(modelOptions, selectedModel)

FormRendered == ~isLoadingDatasets /\ Len(datasets) > 0

ModelSelectRendered == FormRendered /\ ~isLoadingModels /\ Len(modelOptions) > 0

ParamsRendered == ModelSelectRendered /\ selectedModelSpec # NotFound

SubmitEnabledWhileLoading == FormRendered /\ ~(isLoadingModels \/ Len(modelOptions) = 0)

\* the submit button: disabled={isLoading || isLoadingModels || modelOptions.length === 0}
SubmitEnabled == FormRendered /\ ~(isLoading \/ isLoadingModels \/ Len(modelOptions) = 0)

RefreshEnabled == FormRendered /\ ~isLoadingRuns

DownloadOfferedAny(i) == ~isLoadingRuns /\ i \in 1..Len(runs)

\* the run-actions buttons of the i-th run card
DownloadOffered(i) == ~isLoadingRuns /\ i \in 1..Len(runs) /\ runs[i].status = "completed"

\* the values a parameter's control can produce
ControlValues(param) ==
    IF param.type \in {"enum", "bool"}
    THEN {String(param.options[j]) : j \in 1..Len(param.options)}
    ELSE NumberInputs

HEvent(kind, name, value, status, id) ==
    [kind |-> kind, name |-> name, value |-> value, status |-> status, id |-> id]

Count(reqs, caller) == Cardinality({i \in 1..Len(reqs) : reqs[i] = caller})

-----------------------------------------------------------------------------
(* Home.jsx: handlers *)

HomeInit ==
    /\ runs = <<>>
    /\ datasets = <<>>
    /\ isLoading = FALSE
    /\ isLoadingRuns = TRUE
    /\ isLoadingDatasets = TRUE
    /\ error = ""
    /\ success = ""
    /\ datasetId = ""
    /\ modelOptions = <<>>
    /\ selectedModel = ""
    /\ paramValues = EmptyObject
    /\ isLoadingModels = TRUE
    /\ homePc = "constructed"
    /\ runsReqs = <<>>
    /\ runsOvertaken = 0
    /\ datasetsReqs = <<>>
    /\ modelsReqs = <<>>
    /\ submitPc = "idle"
    /\ createReq = [sent |-> FALSE]
    /\ downloads = <<>>
    /\ homeEvent = HEvent("init", "", "", 0, 0)

\* the mount effect: loadData calls loadRuns, loadDatasets and loadModelOptions,
\* each of which runs up to its first await
HomeMount ==
    /\ homePc = "constructed"
    /\ homePc' = "mounted"
    /\ isLoadingRuns' = TRUE
    /\ runsReqs' = loadRunsCall(runsReqs, "mount")
    /\ runsOvertaken' = runsOvertaken
    /\ isLoadingDatasets' = TRUE
    /\ datasetsReqs' = loadDatasetsCall(datasetsReqs, "mount")
    /\ isLoadingModels' = TRUE
    /\ modelsReqs' = Append(modelsReqs, [selectedModel |-> selectedModel])
    /\ homeEvent' = HEvent("mount", "", "", 0, 0)
    /\ UNCHANGED <<runs, datasets, isLoading, error, success, datasetId, modelOptions,
                   selectedModel, paramValues, submitPc, createReq, downloads>>
    /\ UNCHANGED outsideHome

\* the history after the i-th outstanding run-list request settled: a list that
\* is applied overtakes the requests issued before it
Settle(overtaken, i, ok) ==
    IF i <= overtaken THEN overtaken - 1
    ELSE IF ok THEN i - 1
    ELSE overtaken

\* loadRuns after its await; when handleSubmit awaited it, handleSubmit's finally
\* runs in the same turn
loadRunsSettled(i, ok, data, detail) ==
    /\ i \in 1..Len(runsReqs)
    /\ runsReqs' = IF ok THEN RemoveAt(runsReqs, i)
                 ELSE loadRunsCatch(RemoveAt(runsReqs, i), runsReqs[i])
    /\ IF ok
       THEN runs' = data /\ error' = error
       ELSE /\ error' = "Ne udalos zagruzit spisok zapuskov: " \o ErrorMessage("getRuns", detail)
            /\ runs' = runs
    /\ isLoadingRuns' = FALSE
    /\ IF runsReqs[i] = "submit"
       THEN isLoading' = FALSE /\ submitPc' = "idle"
       ELSE UNCHANGED <<isLoading, submitPc>>
    /\ homeEvent' = HEvent(IF ok THEN "runsLoaded" ELSE Settled("Home.loadRuns", "runsFailed"),
                           runsReqs[i], "", 0, 0)
    /\ UNCHANGED <<datasets, isLoadingDatasets, success, datasetId, modelOptions, selectedModel,
                   paramValues, isLoadingModels, homePc, datasetsReqs, modelsReqs, createReq,
                   downloads>>
    /\ UNCHANGED outsideHome

LoadRunsDone(i, ok, data, detail) ==
    /\ loadRunsSettled(i, ok, data, detail)
    /\ runsOvertaken' = runsOvertaken

\* the same step where the order of the responses is observed
LoadRunsDoneInOrder(i, ok, data, detail) ==
    /\ loadRunsSettled(i, ok, data, detail)
    /\ runsOvertaken' = Settle(runsOvertaken, i, ok)

\* loadDatasets after its await; getDatasets fails with the response's message
\* or, without a token, with MsgAuthRequired
LoadDatasetsDone(ok, data, message) ==
    /\ datasetsReqs # <<>>
    /\ datasetsReqs' = Tail(datasetsReqs)
    /\ IF ok
       THEN datasets' = data /\ error' = error
       ELSE /\ error' = "Ne udalos zagruzit spisok datasetov: " \o message
            /\ datasets' = datasets
    /\ isLoadingDatasets' = FALSE
    /\ homeEvent' = HEvent(IF ok THEN "datasetsLoaded"
                           ELSE Settled("Home.loadDatasets", "datasetsFailed"), "", "", 0, 0)
    /\ UNCHANGED <<runs, isLoading, isLoadingRuns, success, datasetId, modelOptions,
                   selectedModel, paramValues, isLoadingModels, homePc, runsReqs, runsOvertaken, modelsReqs,
                   submitPc, createReq, downloads>>
    /\ UNCHANGED outsideHome

\* loadModelOptions after its await
LoadModelsDone(ok, data, detail) ==
    /\ modelsReqs # <<>>
    /\ modelsReqs' = Tail(modelsReqs)
    /\ IF ok
       THEN LET models == IF "models" \in DOMAIN data THEN data.models ELSE <<>>
                nextModel == nextModelOf(models, Head(modelsReqs).selectedModel)
            IN  /\ modelOptions' = models
                /\ IF Len(models) > 0
                   THEN /\ selectedModel' = nextModel
                        /\ paramValues' = buildDefaultValuesFrom(Find(models, nextModel),
                                                                 paramValues)
                   ELSE /\ selectedModel' = ""
                        /\ paramValues' = EmptyObject
                /\ error' = error
       ELSE /\ error' = "Ne udalos zagruzit spisok modelei: " \o ModelsErrorMessage(detail)
            /\ UNCHANGED <<modelOptions, selectedModel, paramValues>>
    /\ isLoadingModels' = FALSE
    \* the event keeps the model that was selected when the response arrived
    /\ homeEvent' = HEvent(IF ok THEN "modelsLoaded"
                           ELSE Settled("Home.loadModelOptions", "modelsFailed"),
                           "", selectedModel, 0, 0)
    /\ UNCHANGED <<runs, datasets, isLoading, isLoadingRuns, isLoadingDatasets, success,
                   datasetId, homePc, runsReqs, runsOvertaken, datasetsReqs, submitPc, createReq, downloads>>
    /\ UNCHANGED outsideHome

\* the dataset select's onChange
DatasetOptions == {""} \cup {NatToString(datasets[j].id) : j \in 1..Len(datasets)}

HandleDatasetChange(value) ==
    /\ FormRendered
    /\ value \in DatasetOptions
    /\ datasetId' = value
    /\ homeEvent' = HEvent("datasetChange", "", value, 0, 0)
    /\ UNCHANGED <<runs, datasets, isLoading, isLoadingRuns, isLoadingDatasets, error, success,
                   modelOptions, selectedModel, paramValues, isLoadingModels>>
    /\ UNCHANGED <<homePc, runsReqs, runsOvertaken, datasetsReqs, modelsReqs, submitPc, createReq, downloads>>
    /\ UNCHANGED outsideHome

handleModelChange(j) ==
    /\ ModelSelectRendered
    /\ j \in 1..Len(modelOptions)
    /\ LET nextModel == modelOptions[j].name IN
        /\ selectedModel' = nextModel
        /\ paramValues' = buildDefaultValuesFrom(Find(modelOptions, nextModel), paramValues)
        \* the event keeps the model left behind and how many of its values were edited
        /\ homeEvent' = HEvent("modelChange", nextModel, selectedModel, 0,
                               Cardinality({k \in DOMAIN paramValues :
                                   paramValues[k] # buildDefaultValues(selectedModelSpec)[k]}))
    /\ UNCHANGED <<runs, datasets, isLoading, isLoadingRuns, isLoadingDatasets, error, success,
                   datasetId, modelOptions, isLoadingModels>>
    /\ UNCHANGED <<homePc, runsReqs, runsOvertaken, datasetsReqs, modelsReqs, submitPc, createReq, downloads>>
    /\ UNCHANGED outsideHome

paramControlNameType(param) == param.type

\* the name a parameter's control passes to handleParamChange
paramControlName(param) == param.name

handleParamChange(j, value) ==
    /\ ParamsRendered
    /\ j \in 1..Len(selectedModelSpec.parameters)
    /\ value \in ControlValues(selectedModelSpec.parameters[j])
    /\ LET name == paramControlName(selectedModelSpec.parameters[j]) IN
        /\ paramValues' = paramUpdate(paramValues, name, value)
        /\ homeEvent' = HEvent("paramChange", name, value, 0, 0)
    /\ UNCHANGED <<runs, datasets, isLoading, isLoadingRuns, isLoadingDatasets, error, success,
                   datasetId, modelOptions, selectedModel, isLoadingModels>>
    /\ UNCHANGED <<homePc, runsReqs, runsOvertaken, datasetsReqs, modelsReqs, submitPc, createReq, downloads>>
    /\ UNCHANGED outsideHome

\* handleSubmit up to its await (or its early return)
handleSubmit ==
    /\ SubmitEnabled
    /\ Len(runsReqs) < MaxRunsInFlight
    /\ success' = ""
    /\ LET invalid == submitValidation(datasetId, selectedModel, modelOptions) IN
       IF invalid # ""
       THEN /\ error' = invalid
            /\ homeEvent' = HEvent("submitRejected", selectedModel, datasetId, 0, 0)
            /\ UNCHANGED <<isLoading, submitPc, createReq>>
       ELSE /\ error' = ""
            /\ isLoading' = TRUE
            /\ submitPc' = "creating"
            /\ createReq' = [sent |-> TRUE, dataset_id |-> Number(datasetId),
                             configuration |->
                                [model |-> selectedModel,
                                 hyperparameters |-> buildHyperparameters(paramValues)]]
            /\ homeEvent' = HEvent("createSent", selectedModel, datasetId, 0, 0)
    /\ UNCHANGED <<runs, datasets, isLoadingRuns, isLoadingDatasets, datasetId, modelOptions,
                   selectedModel, paramValues, isLoadingModels>>
    /\ UNCHANGED <<homePc, runsReqs, runsOvertaken, datasetsReqs, modelsReqs, downloads>>
    /\ UNCHANGED outsideHome

\* handleSubmit after createRun settled
CreateRunDone(ok, run, detail) ==
    /\ submitPc = "creating"
    /\ IF ok
       THEN /\ success' = successMessage(run)
            /\ datasetId' = ""
            /\ isLoadingRuns' = TRUE
            /\ runsReqs' = loadRunsCall(runsReqs, "submit")
            /\ runsOvertaken' = runsOvertaken
            /\ submitPc' = "reloading"
            /\ homeEvent' = HEvent("createOk", run.status, "", StatusOk, run.id)
            /\ UNCHANGED <<error, isLoading>>
       ELSE /\ error' = ErrorMessage("createRun", detail)
            /\ isLoading' = FALSE
            /\ submitPc' = "idle"
            /\ homeEvent' = HEvent(Settled("Home.handleSubmit", "createFailed"), "", detail, 0, 0)
            /\ UNCHANGED <<success, datasetId, isLoadingRuns, runsReqs, runsOvertaken>>
    /\ UNCHANGED <<runs, datasets, isLoadingDatasets, modelOptions, selectedModel, paramValues,
                   isLoadingModels>>
    /\ UNCHANGED <<homePc, datasetsReqs, modelsReqs, createReq, downloads>>
    /\ UNCHANGED outsideHome

\* the refresh button: loadRuns up to its await
RefreshRuns ==
    /\ RefreshEnabled
    /\ Len(runsReqs) + (IF submitPc = "creating" THEN 1 ELSE 0) < MaxRunsInFlight
    /\ isLoadingRuns' = TRUE
    /\ runsReqs' = loadRunsCall(runsReqs, "refresh")
    /\ runsOvertaken' = runsOvertaken
    /\ homeEvent' = HEvent("refresh", "", "", 0, 0)
    /\ UNCHANGED <<runs, datasets, isLoading, isLoadingDatasets, error, success, datasetId,
                   modelOptions, selectedModel, paramValues, isLoadingModels>>
    /\ UNCHANGED <<homePc, datasetsReqs, modelsReqs, submitPc, createReq, downloads>>
    /\ UNCHANGED outsideHome

\* handleDownloadModel / handleDownloadResults up to the await
handleDownload(kind, i) ==
    /\ DownloadOffered(i)
    /\ Len(downloads) < MaxDownloads
    /\ error' = ""
    /\ success' = ""
    /\ downloads' = Append(downloads, [kind |-> kind, runId |-> runs[i].id])
    /\ homeEvent' = HEvent("downloadSent", kind, "", 0, runs[i].id)
    /\ UNCHANGED <<runs, datasets, isLoading, isLoadingRuns, isLoadingDatasets, datasetId,
                   modelOptions, selectedModel, paramValues, isLoadingModels>>
    /\ UNCHANGED <<homePc, runsReqs, runsOvertaken, datasetsReqs, modelsReqs, submitPc, createReq>>
    /\ UNCHANGED outsideHome

\* handleDownloadModel / handleDownloadResults after the await
DownloadDone(i, status, detail) ==
    /\ i \in 1..Len(downloads)
    /\ downloads' = RemoveAt(downloads, i)
    /\ IF status = StatusOk
       THEN /\ error' = error
            /\ homeEvent' = HEvent("downloaded", downloads[i].kind, "", status, downloads[i].runId)
       ELSE /\ error' = downloadErrorMessage(downloads[i].kind, downloads[i].runId,
                                             ApiError(status, detail))
            /\ homeEvent' = HEvent(Settled("Home.handleDownload", "downloadFailed"),
                                   downloads[i].kind, detail, status,
                                   downloads[i].runId)
    /\ UNCHANGED <<runs, datasets, isLoading, isLoadingRuns, isLoadingDatasets, success,
                   datasetId, modelOptions, selectedModel, paramValues, isLoadingModels>>
    /\ UNCHANGED <<homePc, runsReqs, runsOvertaken, datasetsReqs, modelsReqs, submitPc, createReq>>
    /\ UNCHANGED outsideHome

\* the alerts' onClose
CloseError ==
    /\ error # ""
    /\ error' = ""
    /\ homeEvent' = HEvent("closeError", "", "", 0, 0)
    /\ UNCHANGED <<runs, datasets, isLoading, isLoadingRuns, isLoadingDatasets, success,
                   datasetId, modelOptions, selectedModel, paramValues, isLoadingModels>>
    /\ UNCHANGED <<homePc, runsReqs, runsOvertaken, datasetsReqs, modelsReqs, submitPc, createReq, downloads>>
    /\ UNCHANGED outsideHome

CloseSuccess ==
    /\ success # ""
    /\ success' = ""
    /\ homeEvent' = HEvent("closeSuccess", "", "", 0, 0)
    /\ UNCHANGED <<runs, datasets, isLoading, isLoadingRuns, isLoadingDatasets, error,
                   datasetId, modelOptions, selectedModel, paramValues, isLoadingModels>>
    /\ UNCHANGED <<homePc, runsReqs, runsOvertaken, datasetsReqs, modelsReqs, submitPc, createReq, downloads>>
    /\ UNCHANGED outsideHome

\* the loaders' requests fail without a detail in the body
LoaderDetails == {NoDetail}

DatasetsFailures == {ErrorMessage("getDatasets", d) : d \in LoaderDetails}

\* the Home view with a user who fills in the form and submits runs
HomeNext ==
    \/ HomeMount
    \/ \E i \in 1..MaxRunsInFlight + 1, ok \in BOOLEAN, data \in RunLists, d \in LoaderDetails :
          LoadRunsDone(i, ok, data, d)
    \/ \E ok \in BOOLEAN, data \in DatasetLists, m \in DatasetsFailures :
          LoadDatasetsDone(ok, data, m)
    \/ \E ok \in BOOLEAN, data \in ModelResponses, d \in LoaderDetails : LoadModelsDone(ok, data, d)
    \/ \E v \in {""} \cup {NatToString(n) : n \in 0..MaxId} : HandleDatasetChange(v)
    \/ \E j \in 1..2 : handleModelChange(j)
    \/ \E j \in 1..2, v \in NumberInputs \cup {"true", "false", "auto"} :
          handleParamChange(j, v)
    \/ handleSubmit
    \/ \E ok \in BOOLEAN, run \in NewRuns, d \in Details : CreateRunDone(ok, run, d)
    \/ RefreshRuns
    \/ CloseError
    \/ CloseSuccess

\* the Home view with a user who submits and refreshes while run-list requests
\* are in flight, the order of their responses observed
RunsNext ==
    \/ HomeMount
    \/ \E i \in 1..MaxRunsInFlight + 1, ok \in BOOLEAN, data \in RunLists, d \in LoaderDetails :
          LoadRunsDoneInOrder(i, ok, data, d)
    \/ \E ok \in BOOLEAN, data \in DatasetLists, m \in DatasetsFailures :
          LoadDatasetsDone(ok, data, m)
    \/ \E ok \in BOOLEAN, data \in ModelResponses, d \in LoaderDetails : LoadModelsDone(ok, data, d)
    \/ \E v \in {""} \cup {NatToString(n) : n \in 0..MaxId} : HandleDatasetChange(v)
    \/ handleSubmit
    \/ \E ok \in BOOLEAN, run \in NewRuns, d \in Details : CreateRunDone(ok, run, d)
    \/ RefreshRuns

\* the Home view with a user who reads the run list and downloads artifacts
ArtifactNext ==
    \/ HomeMount
    \/ \E i \in 1..MaxRunsInFlight + 1, ok \in BOOLEAN, data \in ArtifactRunLists, d \in LoaderDetails :
          LoadRunsDone(i, ok, data, d)
    \/ \E ok \in BOOLEAN, data \in DatasetLists, m \in DatasetsFailures :
          LoadDatasetsDone(ok, data, m)
    \/ \E ok \in BOOLEAN, data \in ModelResponses, d \in LoaderDetails : LoadModelsDone(ok, data, d)
    \/ RefreshRuns
    \/ \E k \in ArtifactKinds, i \in 1..4 : handleDownload(k, i)
    \/ \E i \in 1..MaxDownloads + 1, s \in {StatusOk, StatusNotFound, StatusServerError},
          d \in Details : DownloadDone(i, s, d)
    \/ CloseError

-----------------------------------------------------------------------------
(* Datasets.jsx *)

NoUser == 0     \* userId null; the code reads userId only through !userId and userId &&

Users == {[id |-> 7]}

File(name) == [name |-> name]

\* what the file dialog hands to handleFileChange: e.target.files?.[0]
FileChoices == {Undefined, File("sales.csv"), File("notes.txt"), File("SALES.CSV"), File("csv")}

NameInputs == {"", "  ", "Sales"}

NewDatasets == {Dataset(2, "Sales")}

\* String.prototype.endsWith
endsWith(s, suffix) ==
    Len(s) >= Len(suffix) /\ SubSeq(s, Len(s) - Len(suffix) + 1, Len(s)) = suffix

\* String.prototype.trim, for strings whose whitespace is spaces
RECURSIVE trim(_)
trim(s) ==
    IF s = "" THEN ""
    ELSE IF SubSeq(s, 1, 1) = " " THEN trim(SubSeq(s, 2, Len(s)))
    ELSE IF SubSeq(s, Len(s), Len(s)) = " " THEN trim(SubSeq(s, 1, Len(s) - 1))
    ELSE s

MsgChooseCsvPlease == "Pozhaluista, vyberite CSV fail"

MsgEnterName == "Vvedite nazvanie dataseta"

MsgChooseCsv == "Vyberite CSV fail"

MsgNoUser == "Ne udalos opredelit polzovatelya"

fileAcceptedAny(selectedFile) == TRUE

\* handleFileChange's test of the chosen file
fileAccepted(selectedFile) == endsWith(selectedFile.name, ".csv")

\* handleSubmit's checks before the network call: the message it sets, or ''
uploadValidation(name, chosen, uid) ==
    IF trim(name) = "" THEN MsgEnterName
    ELSE IF chosen = Null THEN MsgChooseCsv
    ELSE IF uid = NoUser THEN MsgNoUser
    ELSE ""

\* `Датасет "${dataset.name}" успешно загружен`
uploadedMessage(dataset) == "Dataset \"" \o dataset.name \o "\" uspeshno zagruzhen"

userFirstNot(reqs, pending) == loadDatasetsCall(reqs, "mount")

\* loadUserAndDatasets / loadUserAndData up to the first await: getCurrentUser is
\* on the wire (pending) and loadDatasets has not been called
userFirst(reqs, pending) == reqs

\* the mount effect: loadUserAndDatasets up to its await
userCatchFlagKeeps(flag) == flag

\* the catch of loadUserAndDatasets / loadUserAndData: setIsLoading...(false)
userCatchFlag(flag) == FALSE

DatasetsMount ==
    /\ mounted = "Datasets"
    /\ homePc = "constructed"
    /\ homePc' = "mounted"
    /\ userReqs' = Append(userReqs, "mount")
    /\ datasetsReqs' = userFirst(datasetsReqs, userReqs')
    /\ homeEvent' = HEvent("mount", "", "", 0, 0)
    /\ UNCHANGED <<homeState, runsReqs, runsOvertaken, modelsReqs, submitPc, createReq, downloads>>
    /\ UNCHANGED <<mounted, configuration, datasetName, file, userId>>
    /\ UNCHANGED <<sessVars, fnVars>>

\* loadUserAndDatasets after getCurrentUser settled: loadDatasets up to its
\* await, or the catch
DatasetsUserDone(ok, user, detail) ==
    /\ mounted = "Datasets"
    /\ userReqs # <<>>
    /\ userReqs' = Tail(userReqs)
    /\ IF ok
       THEN /\ userId' = user.id
            /\ isLoadingDatasets' = TRUE
            /\ datasetsReqs' = loadDatasetsCall(datasetsReqs, "mount")
            /\ error' = error
            /\ homeEvent' = HEvent("userLoaded", "", "", StatusOk, user.id)
       ELSE /\ error' = "Ne udalos zagruzit informatsiyu o polzovatele: "
                            \o ErrorMessage("getCurrentUser", detail)
            /\ isLoadingDatasets' = userCatchFlag(isLoadingDatasets)
            /\ homeEvent' = HEvent(Settled("Datasets.loadUserAndDatasets", "userFailed"),
                                   "", detail, 0, 0)
            /\ UNCHANGED <<userId, datasetsReqs>>
    /\ UNCHANGED <<runs, datasets, isLoading, isLoadingRuns, success, datasetId, modelOptions,
                   selectedModel, paramValues, isLoadingModels>>
    /\ UNCHANGED <<homePc, runsReqs, runsOvertaken, modelsReqs, submitPc, createReq, downloads>>
    /\ UNCHANGED <<mounted, configuration, datasetName, file>>
    /\ UNCHANGED <<sessVars, fnVars>>

\* loadDatasets after its await; when handleSubmit awaited it, handleSubmit's
\* finally runs in the same turn
DatasetsLoadDone(i, ok, data, message) ==
    /\ mounted = "Datasets"
    /\ i \in 1..Len(datasetsReqs)
    /\ datasetsReqs' = RemoveAt(datasetsReqs, i)
    /\ IF ok
       THEN datasets' = data /\ error' = error
       ELSE /\ error' = "Ne udalos zagruzit spisok datasetov: " \o message
            /\ datasets' = datasets
    /\ isLoadingDatasets' = FALSE
    /\ IF datasetsReqs[i] = "submit"
       THEN isLoading' = FALSE /\ submitPc' = "idle"
       ELSE UNCHANGED <<isLoading, submitPc>>
    /\ homeEvent' = HEvent(IF ok THEN "datasetsLoaded"
                           ELSE Settled("Datasets.loadDatasets", "datasetsFailed"),
                           datasetsReqs[i], "", 0, 0)
    /\ UNCHANGED <<runs, isLoadingRuns, success, datasetId, modelOptions, selectedModel,
                   paramValues, isLoadingModels>>
    /\ UNCHANGED <<homePc, runsReqs, runsOvertaken, modelsReqs, createReq, downloads>>
    /\ UNCHANGED <<pageVars, sessVars, fnVars>>

\* the name field's onChange
DatasetsNameChange(value) ==
    /\ mounted = "Datasets"
    /\ homePc = "mounted"
    /\ datasetName' = value
    /\ homeEvent' = HEvent("nameChange", "", value, 0, 0)
    /\ UNCHANGED <<homeState, homePc, runsReqs, runsOvertaken, datasetsReqs, modelsReqs, submitPc, createReq,
                   downloads>>
    /\ UNCHANGED <<mounted, configuration, file, userId, userReqs>>
    /\ UNCHANGED <<sessVars, fnVars>>

DatasetsHandleFileChange(selectedFile) ==
    /\ mounted = "Datasets"
    /\ homePc = "mounted"
    /\ IF selectedFile = Undefined
       THEN /\ UNCHANGED <<error, file>>
            /\ homeEvent' = HEvent("fileChange", "", "none", 0, 0)
       ELSE IF ~fileAccepted(selectedFile)
       THEN /\ error' = MsgChooseCsvPlease
            /\ file' = Null
            /\ homeEvent' = HEvent("fileChange", selectedFile.name, "refused", 0, 0)
       ELSE /\ file' = selectedFile
            /\ error' = ""
            /\ homeEvent' = HEvent("fileChange", selectedFile.name, "kept", 0, 0)
    /\ UNCHANGED <<runs, datasets, isLoading, isLoadingRuns, isLoadingDatasets, success,
                   datasetId, modelOptions, selectedModel, paramValues, isLoadingModels>>
    /\ UNCHANGED <<homePc, runsReqs, runsOvertaken, datasetsReqs, modelsReqs, submitPc, createReq, downloads>>
    /\ UNCHANGED <<mounted, configuration, datasetName, userId, userReqs>>
    /\ UNCHANGED <<sessVars, fnVars>>

\* handleSubmit up to its await (or its early return); the button is disabled
\* while isLoading
DatasetsHandleSubmit ==
    /\ mounted = "Datasets"
    /\ homePc = "mounted"
    /\ ~isLoading
    /\ Len(datasetsReqs) < MaxInFlight
    /\ success' = ""
    /\ LET invalid == uploadValidation(datasetName, file, userId) IN
       IF invalid # ""
       THEN /\ error' = invalid
            /\ homeEvent' = HEvent("uploadRejected", "", invalid, 0, 0)
            /\ UNCHANGED <<isLoading, submitPc, createReq>>
       ELSE /\ error' = ""
            /\ isLoading' = TRUE
            /\ submitPc' = "uploading"
            /\ createReq' = [sent |-> TRUE, dataset_name |-> datasetName, file |-> file]
            /\ homeEvent' = HEvent("uploadSent", file.name, datasetName, 0, 0)
    /\ UNCHANGED <<runs, datasets, isLoadingRuns, isLoadingDatasets, datasetId, modelOptions,
                   selectedModel, paramValues, isLoadingModels>>
    /\ UNCHANGED <<homePc, runsReqs, runsOvertaken, datasetsReqs, modelsReqs, downloads>>
    /\ UNCHANGED <<pageVars, sessVars, fnVars>>

\* handleSubmit after uploadDataset settled
DatasetsUploadDone(ok, dataset, detail) ==
    /\ mounted = "Datasets"
    /\ submitPc = "uploading"
    /\ IF ok
       THEN /\ success' = uploadedMessage(dataset)
            /\ datasetName' = ""
            /\ file' = Null
            /\ isLoadingDatasets' = TRUE
            /\ datasetsReqs' = loadDatasetsCall(datasetsReqs, "submit")
            /\ submitPc' = "reloading"
            /\ homeEvent' = HEvent("uploadOk", dataset.name, "", StatusOk, dataset.id)
            /\ UNCHANGED <<error, isLoading>>
       ELSE /\ error' = ErrorMessage("uploadDataset", detail)
            /\ isLoading' = FALSE
            /\ submitPc' = "idle"
            /\ homeEvent' = HEvent(Settled("Datasets.handleSubmit", "uploadFailed"),
                                   "", detail, 0, 0)
            /\ UNCHANGED <<success, datasetName, file, isLoadingDatasets, datasetsReqs>>
    /\ UNCHANGED <<runs, datasets, isLoadingRuns, datasetId, modelOptions, selectedModel,
                   paramValues, isLoadingModels>>
    /\ UNCHANGED <<homePc, runsReqs, runsOvertaken, modelsReqs, createReq, downloads>>
    /\ UNCHANGED <<mounted, configuration, userId, userReqs>>
    /\ UNCHANGED <<sessVars, fnVars>>

\* the refresh button: userId && loadDatasets(userId), up to the await
DatasetsRefresh ==
    /\ mounted = "Datasets"
    /\ homePc = "mounted"
    /\ ~(isLoadingDatasets \/ userId = NoUser)
    /\ Len(datasetsReqs) + (IF submitPc = "uploading" THEN 1 ELSE 0) < MaxInFlight
    /\ isLoadingDatasets' = TRUE
    /\ datasetsReqs' = loadDatasetsCall(datasetsReqs, "refresh")
    /\ homeEvent' = HEvent("refresh", "", "", 0, 0)
    /\ UNCHANGED <<runs, datasets, isLoading, isLoadingRuns, error, success, datasetId,
                   modelOptions, selectedModel, paramValues, isLoadingModels>>
    /\ UNCHANGED <<homePc, runsReqs, runsOvertaken, modelsReqs, submitPc, createReq, downloads>>
    /\ UNCHANGED <<pageVars, sessVars, fnVars>>

-----------------------------------------------------------------------------
(* unnamed/part_000: the Home view that loads the current user first *)

\* the mount effect: loadUserAndData up to its await
HomeByUserMount ==
    /\ mounted = "HomeByUser"
    /\ homePc = "constructed"
    /\ homePc' = "mounted"
    /\ userReqs' = Append(userReqs, "mount")
    /\ datasetsReqs' = userFirst(datasetsReqs, userReqs')
    /\ homeEvent' = HEvent("mount", "", "", 0, 0)
    /\ UNCHANGED <<homeState, runsReqs, runsOvertaken, modelsReqs, submitPc, createReq, downloads>>
    /\ UNCHANGED <<mounted, configuration, datasetName, file, userId>>
    /\ UNCHANGED <<sessVars, fnVars>>

\* loadUserAndData after getCurrentUser settled: loadRuns and loadDatasets up to
\* their awaits, or the catch
HomeByUserDone(ok, user, detail) ==
    /\ mounted = "HomeByUser"
    /\ userReqs # <<>>
    /\ userReqs' = Tail(userReqs)
    /\ IF ok
       THEN /\ userId' = user.id
            /\ isLoadingRuns' = TRUE
            /\ runsReqs' = loadRunsCall(runsReqs, "mount")
            /\ runsOvertaken' = runsOvertaken
            /\ isLoadingDatasets' = TRUE
            /\ datasetsReqs' = loadDatasetsCall(datasetsReqs, "mount")
            /\ error' = error
            /\ homeEvent' = HEvent("userLoaded", "", "", StatusOk, user.id)
       ELSE /\ error' = "Ne udalos zagruzit dannye: " \o ErrorMessage("getCurrentUser", detail)
            /\ isLoadingRuns' = userCatchFlag(isLoadingRuns)
            /\ isLoadingDatasets' = userCatchFlag(isLoadingDatasets)
            /\ homeEvent' = HEvent(Settled("HomeByUser.loadUserAndData", "userFailed"),
                                   "", detail, 0, 0)
            /\ UNCHANGED <<userId, runsReqs, runsOvertaken, datasetsReqs>>
    /\ UNCHANGED <<runs, datasets, isLoading, success, datasetId, modelOptions, selectedModel,
                   paramValues, isLoadingModels>>
    /\ UNCHANGED <<homePc, modelsReqs, submitPc, createReq, downloads>>
    /\ UNCHANGED <<mounted, configuration, datasetName, file>>
    /\ UNCHANGED <<sessVars, fnVars>>

-----------------------------------------------------------------------------
(* part_000: the configuration field and handleSubmit of the user-first Home *)

\* JSON values: Num, Str, Bool and Null as above, and objects
JObject(fields) == [type |-> "object", fields |-> fields]

Chars(s) == [i \in 1..Len(s) |-> SubSeq(s, i, i)]

At(cs, i) == IF i \in 1..Len(cs) THEN cs[i] ELSE ""

JsonWhitespace == {" ", "\n", "\t", "\r"}

Digits == {"0", "1", "2", "3", "4", "5", "6", "7", "8", "9"}

SyntaxError == [ok |-> FALSE]

Parsed(value, next) == [ok |-> TRUE, value |-> value, next |-> next]

RECURSIVE skipWhitespace(_, _)
skipWhitespace(cs, i) ==
    IF At(cs, i) \in JsonWhitespace THEN skipWhitespace(cs, i + 1) ELSE i

\* true, false, null
parseLiteral(cs, i, word, value) ==
    IF i + Len(word) - 1 <= Len(cs) /\ SubSeq(cs, i, i + Len(word) - 1) = Chars(word)
    THEN Parsed(value, i + Len(word))
    ELSE SyntaxError

RECURSIVE digitsEnd(_, _)
digitsEnd(cs, i) == IF At(cs, i) \in Digits THEN digitsEnd(cs, i + 1) ELSE i

RECURSIVE DigitsValue(_)
DigitsValue(ds) ==
    IF ds = <<>> THEN 0
    ELSE 10 * DigitsValue(SubSeq(ds, 1, Len(ds) - 1))
         + (CHOOSE d \in 0..9 : Digit(d) = ds[Len(ds)])

\* a number of the grammar's integer form: 0 or a digit 1-9 followed by digits
parseNumber(cs, i) ==
    LET end == digitsEnd(cs, i) IN
    IF end = i \/ (At(cs, i) = "0" /\ end > i + 1) \/ At(cs, end) \in {".", "e", "E"}
    THEN SyntaxError
    ELSE Parsed(Num(10 * DigitsValue(SubSeq(cs, i, end - 1))), end)

RECURSIVE stringEnd(_, _)
stringEnd(cs, i) ==
    IF i > Len(cs) \/ cs[i] \in {"\\", "\n"} THEN 0
    ELSE IF cs[i] = "\"" THEN i
    ELSE stringEnd(cs, i + 1)

RECURSIVE Joined(_)
Joined(cs) == IF cs = <<>> THEN "" ELSE Head(cs) \o Joined(Tail(cs))

\* a string without escapes, the opening quote at i
parseString(cs, i) ==
    LET end == stringEnd(cs, i + 1) IN
    IF At(cs, i) # "\"" \/ end = 0 THEN SyntaxError
    ELSE Parsed(Str(Joined(SubSeq(cs, i + 1, end - 1))), end + 1)

RECURSIVE parseValue(_, _)
RECURSIVE parseMembers(_, _, _)
parseMembers(cs, i, fields) ==
    LET key == parseString(cs, i) IN
    IF ~key.ok THEN SyntaxError
    ELSE LET colon == skipWhitespace(cs, key.next) IN
         IF At(cs, colon) # ":" THEN SyntaxError
         ELSE LET member == parseValue(cs, skipWhitespace(cs, colon + 1)) IN
              IF ~member.ok THEN SyntaxError
              ELSE LET after == skipWhitespace(cs, member.next)
                       held == With(fields, key.value.s, member.value)
                   IN  IF At(cs, after) = "}" THEN Parsed(JObject(held), after + 1)
                       ELSE IF At(cs, after) = ","
                       THEN parseMembers(cs, skipWhitespace(cs, after + 1), held)
                       ELSE SyntaxError

parseObject(cs, i) ==
    LET first == skipWhitespace(cs, i + 1) IN
    IF At(cs, first) = "}" THEN Parsed(JObject(EmptyObject), first + 1)
    ELSE parseMembers(cs, first, EmptyObject)

parseValue(cs, i) ==
    CASE At(cs, i) = "{"      -> parseObject(cs, i)
      [] At(cs, i) = "\""     -> parseString(cs, i)
      [] At(cs, i) = "t"      -> parseLiteral(cs, i, "true", Bool(TRUE))
      [] At(cs, i) = "f"      -> parseLiteral(cs, i, "false", Bool(FALSE))
      [] At(cs, i) = "n"      -> parseLiteral(cs, i, "null", Null)
      [] At(cs, i) \in Digits -> parseNumber(cs, i)
      [] OTHER                -> SyntaxError

\* JSON.parse(text): the value, or SyntaxError, for texts of objects, strings
\* without escapes, non-negative integers, true, false and null
JSONparse(text) ==
    LET cs == Chars(text)
        parsed == parseValue(cs, skipWhitespace(cs, 1))
    IN  IF parsed.ok /\ skipWhitespace(cs, parsed.next) = Len(cs) + 1
        THEN parsed ELSE SyntaxError

\* what the user can type into the configuration field
ConfigurationInputs ==
    {"{}", "", "  ", "{\"epochs\": 5}", "{epochs: 5}", "{\"epochs\": 5,}", "5", "{\"a\": {\"b\": true}} "}

MsgInvalidConfiguration == "Configuration dolzhen byt validnym JSON"

configurationOfLenient(text) ==
    IF trim(text) # "" /\ JSONparse(text).ok THEN JSONparse(text)
    ELSE Parsed(JObject(EmptyObject), 0)

\* handleSubmit's let config = {}; if (configuration.trim()) config = JSON.parse(configuration)
configurationOf(text) ==
    IF trim(text) # "" THEN JSONparse(text) ELSE Parsed(JObject(EmptyObject), 0)

\* the configuration field's onChange
HomeByUserConfigurationChange(value) ==
    /\ mounted = "HomeByUser"
    /\ FormRendered
    /\ value # configuration
    /\ configuration' = value
    /\ homeEvent' = HEvent("configurationChange", "", value, 0, 0)
    /\ UNCHANGED <<homeState, homePc, runsReqs, runsOvertaken, datasetsReqs, modelsReqs, submitPc,
                   createReq, downloads>>
    /\ UNCHANGED <<mounted, datasetName, file, userId, userReqs>>
    /\ UNCHANGED <<sessVars, fnVars>>

\* handleSubmit up to its await (or an early return)
HomeByUserHandleSubmit ==
    /\ mounted = "HomeByUser"
    /\ FormRendered
    /\ ~isLoading
    /\ Len(runsReqs) < MaxRunsInFlight
    /\ success' = ""
    /\ LET config == configurationOf(configuration) IN
       IF datasetId = ""
       THEN /\ error' = MsgSelectDataset
            /\ homeEvent' = HEvent("submitRejected", "", datasetId, 0, 0)
            /\ UNCHANGED <<isLoading, submitPc, createReq>>
       ELSE IF ~config.ok
       THEN /\ error' = MsgInvalidConfiguration
            /\ homeEvent' = HEvent("configurationRejected", "", configuration, 0, 0)
            /\ UNCHANGED <<isLoading, submitPc, createReq>>
       ELSE /\ error' = ""
            /\ isLoading' = TRUE
            /\ submitPc' = "creating"
            /\ createReq' = [sent |-> TRUE, dataset_id |-> Number(datasetId),
                             configuration |-> config.value]
            /\ homeEvent' = HEvent("createSent", "", configuration, 0, 0)
    /\ UNCHANGED <<runs, datasets, isLoadingRuns, isLoadingDatasets, datasetId, modelOptions,
                   selectedModel, paramValues, isLoadingModels>>
    /\ UNCHANGED <<homePc, runsReqs, runsOvertaken, datasetsReqs, modelsReqs, downloads>>
    /\ UNCHANGED pageVars
    /\ UNCHANGED <<sessVars, fnVars>>

\* handleSubmit after createRun settled
HomeByUserCreateDone(ok, run, detail) ==
    /\ mounted = "HomeByUser"
    /\ submitPc = "creating"
    /\ IF ok
       THEN /\ success' = successMessage(run)
            /\ datasetId' = ""
            /\ configuration' = "{}"
            /\ isLoadingRuns' = TRUE
            /\ runsReqs' = loadRunsCall(runsReqs, "submit")
            /\ submitPc' = "reloading"
            /\ homeEvent' = HEvent("createOk", run.status, "", StatusOk, run.id)
            /\ UNCHANGED <<error, isLoading>>
       ELSE /\ error' = ErrorMessage("createRun", detail)
            /\ isLoading' = FALSE
            /\ submitPc' = "idle"
            /\ homeEvent' = HEvent(Settled("HomeByUser.handleSubmit", "createFailed"), "", detail, 0, 0)
            /\ UNCHANGED <<success, datasetId, configuration, isLoadingRuns, runsReqs>>
    /\ UNCHANGED <<runs, datasets, isLoadingDatasets, modelOptions, selectedModel, paramValues,
                   isLoadingModels>>
    /\ UNCHANGED <<homePc, runsOvertaken, datasetsReqs, modelsReqs, createReq, downloads>>
    /\ UNCHANGED <<mounted, datasetName, file, userId, userReqs>>
    /\ UNCHANGED <<sessVars, fnVars>>

\* the user-first Home view with its form in use
ConfigNext ==
    \/ HomeByUserMount
    \/ \E ok \in BOOLEAN, u \in Users, d \in Details : HomeByUserDone(ok, u, d)
    \/ \E i \in 1..MaxRunsInFlight + 1, ok \in BOOLEAN, data \in RunLists,
          d \in LoaderDetails : LoadRunsDone(i, ok, data, d)
    \/ \E ok \in BOOLEAN, data \in DatasetLists, m \in DatasetsFailures :
          LoadDatasetsDone(ok, data, m)
    \/ RefreshRuns
    \/ \E v \in {""} \cup {NatToString(n) : n \in 0..MaxId} : HandleDatasetChange(v)
    \/ \E v \in ConfigurationInputs : HomeByUserConfigurationChange(v)
    \/ HomeByUserHandleSubmit
    \/ \E ok \in BOOLEAN, run \in NewRuns, d \in Details : HomeByUserCreateDone(ok, run, d)

\* the Datasets view
DatasetsNext ==
    \/ DatasetsMount
    \/ \E ok \in BOOLEAN, u \in Users, d \in Details : DatasetsUserDone(ok, u, d)
    \/ \E i \in 1..MaxInFlight + 1, ok \in BOOLEAN, data \in DatasetLists,
          m \in DatasetsFailures : DatasetsLoadDone(i, ok, data, m)
    \/ \E v \in NameInputs : DatasetsNameChange(v)
    \/ \E f \in FileChoices : DatasetsHandleFileChange(f)
    \/ DatasetsHandleSubmit
    \/ \E ok \in BOOLEAN, ds \in NewDatasets, d \in Details : DatasetsUploadDone(ok, ds, d)
    \/ DatasetsRefresh

\* Home with its form reduced to the dataset selection
HomeLoadingNext ==
    \/ HomeMount
    \/ \E i \in 1..MaxRunsInFlight + 1, ok \in BOOLEAN, data \in RunLists, d \in LoaderDetails :
          LoadRunsDone(i, ok, data, d)
    \/ \E ok \in BOOLEAN, data \in DatasetLists, m \in DatasetsFailures :
          LoadDatasetsDone(ok, data, m)
    \/ \E ok \in BOOLEAN, data \in ModelResponses, d \in LoaderDetails : LoadModelsDone(ok, data, d)
    \/ \E v \in {""} \cup {NatToString(n) : n \in 0..MaxId} : HandleDatasetChange(v)
    \/ handleSubmit
    \/ \E ok \in BOOLEAN, run \in NewRuns, d \in Details : CreateRunDone(ok, run, d)
    \/ RefreshRuns

\* the user-first Home view with its configuration text left as it is
HomeByUserLoadingNext ==
    \/ HomeByUserMount
    \/ \E ok \in BOOLEAN, u \in Users, d \in Details : HomeByUserDone(ok, u, d)
    \/ \E i \in 1..MaxRunsInFlight + 1, ok \in BOOLEAN, data \in RunLists,
          d \in LoaderDetails : LoadRunsDone(i, ok, data, d)
    \/ \E ok \in BOOLEAN, data \in DatasetLists, m \in DatasetsFailures :
          LoadDatasetsDone(ok, data, m)
    \/ RefreshRuns
    \/ \E v \in {""} \cup {NatToString(n) : n \in 0..MaxId} : HandleDatasetChange(v)
    \/ HomeByUserHandleSubmit
    \/ \E ok \in BOOLEAN, run \in NewRuns, d \in Details : HomeByUserCreateDone(ok, run, d)

\* one of the three views with its loaders, its submission and its refresh
LoadingNext ==
    \/ mounted = "Home" /\ HomeLoadingNext
    \/ mounted = "Datasets" /\ DatasetsNext
    \/ mounted = "HomeByUser" /\ HomeByUserLoadingNext

\* every request on the wire is settled: the oldest of each kind eventually is
RequestsSettle ==
    /\ WF_vars(\E ok \in BOOLEAN, data \in RunLists, d \in LoaderDetails : LoadRunsDone(1, ok, data, d))
    /\ WF_vars(mounted # "Datasets" /\ \E ok \in BOOLEAN, data \in DatasetLists, m \in DatasetsFailures :
                  LoadDatasetsDone(ok, data, m))
    /\ WF_vars(\E ok \in BOOLEAN, data \in DatasetLists, m \in DatasetsFailures :
                  DatasetsLoadDone(1, ok, data, m))
    /\ WF_vars(mounted = "Home" /\ \E ok \in BOOLEAN, data \in ModelResponses, d \in LoaderDetails :
                  LoadModelsDone(ok, data, d))
    /\ WF_vars(mounted = "Home" /\ \E ok \in BOOLEAN, run \in NewRuns, d \in Details :
                  CreateRunDone(ok, run, d))
    /\ WF_vars(\E ok \in BOOLEAN, run \in NewRuns, d \in Details : HomeByUserCreateDone(ok, run, d))
    /\ WF_vars(\E ok \in BOOLEAN, ds \in NewDatasets, d \in Details : DatasetsUploadDone(ok, ds, d))
    /\ WF_vars(\E ok \in BOOLEAN, u \in Users, d \in Details : DatasetsUserDone(ok, u, d))
    /\ WF_vars(\E ok \in BOOLEAN, u \in Users, d \in Details : HomeByUserDone(ok, u, d))

\* React runs a view's mount effect once its first render is committed
MountEffectsRun ==
    /\ WF_vars(mounted = "Home" /\ HomeMount)
    /\ WF_vars(DatasetsMount)
    /\ WF_vars(HomeByUserMount)

\* the two views that ask for the current user before their data; loadRuns,
\* loadDatasets, the refresh button, the dataset select and the alerts of
\* part_000 are those of Home.jsx
PagesNext ==
    \/ DatasetsMount
    \/ \E ok \in BOOLEAN, u \in Users, d \in Details : DatasetsUserDone(ok, u, d)
    \/ \E i \in 1..MaxInFlight + 1, ok \in BOOLEAN, data \in DatasetLists,
          m \in DatasetsFailures : DatasetsLoadDone(i, ok, data, m)
    \/ \E v \in NameInputs : DatasetsNameChange(v)
    \/ \E f \in FileChoices : DatasetsHandleFileChange(f)
    \/ DatasetsHandleSubmit
    \/ \E ok \in BOOLEAN, ds \in NewDatasets, d \in Details : DatasetsUploadDone(ok, ds, d)
    \/ DatasetsRefresh
    \/ HomeByUserMount
    \/ \E ok \in BOOLEAN, u \in Users, d \in Details : HomeByUserDone(ok, u, d)
    \/ /\ mounted = "HomeByUser"
       /\ \/ \E i \in 1..MaxRunsInFlight + 1, ok \in BOOLEAN, data \in RunLists,
                d \in LoaderDetails : LoadRunsDone(i, ok, data, d)
          \/ \E ok \in BOOLEAN, data \in DatasetLists, m \in DatasetsFailures :
                LoadDatasetsDone(ok, data, m)
          \/ RefreshRuns
          \/ \E v \in {""} \cup {NatToString(n) : n \in 0..MaxId} : HandleDatasetChange(v)
    \/ CloseError
    \/ CloseSuccess

-----------------------------------------------------------------------------
(* buildDefaultValues applied to a model specification *)

MaxParams == 2

ParamPool ==
    {Param(n, "number", d, <<>>) :
        n \in {"alpha", "solver", "fit_intercept"},
        d \in {Num(0), Num(10), Num(5), Num(120), Str("auto"), Bool(TRUE), Bool(FALSE), Null, Undefined}}

\* model specifications with up to MaxParams parameters of distinct names, and
\* the result of a find that matched nothing
ModelPool ==
    {NotFound} \cup
    {[name |-> "m", parameters |-> ps] :
        ps \in {q \in UNION {[1..n -> ParamPool] : n \in 0..MaxParams} :
                   \A i, j \in DOMAIN q : i # j => q[i].name # q[j].name}}

ApplyBuildDefaultValues ==
    /\ fnPc = "ready"
    /\ fnResult' = buildDefaultValues(fnArg)
    /\ fnPc' = "done"
    /\ UNCHANGED <<fnArg, sessVars, homeVars, pageVars>>

DefaultsNext == ApplyBuildDefaultValues

-----------------------------------------------------------------------------
\* no view with user-first loading is mounted and no function is being applied
IdleInit ==
    /\ datasetName = ""
    /\ configuration = "{}"
    /\ file = Null
    /\ userId = NoUser
    /\ userReqs = <<>>
    /\ fnArg = NotFound
    /\ fnResult = EmptyObject
    /\ fnPc = "idle"

Init == SessInit /\ HomeInit /\ mounted = "none" /\ IdleInit

\* the Home view is rendered inside ProtectedRoute: a session exists
HomeViewInit ==
    /\ HomeInit
    /\ token = "t1"
    /\ isAuthenticated = TRUE
    /\ authIsLoading = FALSE
    /\ net = <<>>
    /\ authEvent = Event("mount", "", 0, Absent, "")
    /\ sinceLogout = FALSE
    /\ location = "/"
    /\ redirectTimers = 0
    /\ mounted = "Home"
    /\ IdleInit

\* a view rendered inside ProtectedRoute: a session exists
ProtectedSession ==
    /\ token = "t1"
    /\ isAuthenticated = TRUE
    /\ authIsLoading = FALSE
    /\ net = <<>>
    /\ authEvent = Event("mount", "", 0, Absent, "")
    /\ sinceLogout = FALSE
    /\ redirectTimers = 0

\* the Datasets view or the user-first Home view is routed to; the states of
\* Home.jsx that they do not declare keep their initial values
PagesInit ==
    /\ HomeInit
    /\ ProtectedSession
    /\ mounted \in {"Datasets", "HomeByUser"}
    /\ location = (IF mounted = "Datasets" THEN "/datasets" ELSE "/")
    /\ IdleInit

DefaultsInit ==
    /\ HomeInit
    /\ ProtectedSession
    /\ location = "/"
    /\ mounted = "none"
    /\ datasetName = ""
    /\ configuration = "{}"
    /\ file = Null
    /\ userId = NoUser
    /\ userReqs = <<>>
    /\ fnArg \in ModelPool
    /\ fnResult = EmptyObject
    /\ fnPc = "ready"

Next ==
    \/ AuthProviderMount
    \/ LoginSubmit
    \/ \E i \in 1..MaxInFlight + 1, ok \in BOOLEAN, t \in AccessTokens, d \in Details :
          LoginResponse(i, ok, t, d)
    \/ RegisterSubmit
    \/ \E i \in 1..MaxInFlight + 1, ok \in BOOLEAN, d \in Details : RegisterResponse(i, ok, d)
    \/ Logout
    \/ \E c \in ViewCalls : ViewCall(c)
    \/ \E i \in 1..MaxInFlight + 1, s \in {StatusOk} \cup FailureStatuses, d \in Details :
          ViewResponse(i, s, d)
    \/ PageReload
    \/ \E p \in Paths : OpenUrl(p)
    \/ \E p \in Paths : LayoutNavigate(p)
    \/ RouterRedirect
    \/ RegisterTimer

Spec == Init /\ [][Next]_vars

\* React runs the provider's mount effect once the first render is committed
SessionLiveSpec == Init /\ [][Next]_vars /\ WF_vars(AuthProviderMount)

HomeSpec == HomeViewInit /\ [][HomeNext]_vars

RunsSpec == HomeViewInit /\ [][RunsNext]_vars

ArtifactSpec == HomeViewInit /\ [][ArtifactNext]_vars

PagesSpec == PagesInit /\ [][PagesNext]_vars

ConfigInit ==
    /\ HomeInit
    /\ ProtectedSession
    /\ mounted = "HomeByUser"
    /\ location = "/"
    /\ IdleInit

ConfigSpec == ConfigInit /\ [][ConfigNext]_vars

LoadingInit ==
    /\ HomeInit
    /\ ProtectedSession
    /\ mounted \in {"Home", "Datasets", "HomeByUser"}
    /\ location = (IF mounted = "Datasets" THEN "/datasets" ELSE "/")
    /\ IdleInit

LoadingSpec == LoadingInit /\ [][LoadingNext]_vars /\ MountEffectsRun /\ RequestsSettle

DefaultsSpec == DefaultsInit /\ [][DefaultsNext]_vars

\* the application with one of its routes open: the public pages, the Home
\* view, the Datasets view or the user-first Home view
HandlersInit ==
    /\ HomeInit
    /\ IdleInit
    /\ mounted \in {"none", "Home", "HomeRuns", "Datasets", "HomeByUser"}
    /\ IF mounted = "none"
       THEN SessInit
       ELSE ProtectedSession /\ location = (IF mounted = "Datasets" THEN "/datasets" ELSE "/")

HandlersNext ==
    \/ mounted = "none" /\ Next
    \/ mounted = "Home" /\ HomeNext
    \/ mounted = "HomeRuns" /\ ArtifactNext
    \/ mounted \in {"Datasets", "HomeByUser"} /\ PagesNext

HandlersSpec == HandlersInit /\ [][HandlersNext]_vars

\* the same routes, each protected view with its requests and without the
\* editing of its form
RequestsNext ==
    \/ mounted = "none" /\ Next
    \/ mounted = "Home" /\ HomeLoadingNext
    \/ mounted = "HomeRuns" /\ ArtifactNext
    \/ mounted = "Datasets" /\ DatasetsNext
    \/ mounted = "HomeByUser" /\ HomeByUserLoadingNext

RequestsSpec == HandlersInit /\ [][RequestsNext]_vars

-----------------------------------------------------------------------------
(* Session claims, checked under Spec *)

\* C1: once the provider's initial check is done, isAuthenticated is true
\* exactly when a token is stored under coreServiceToken.
C1_AuthenticatedIffToken ==
    ~authIsLoading => (isAuthenticated <=> token # Absent)

\* a login was rejected after an earlier logout: no token, not authenticated
C1_Witness ==
    /\ ~authIsLoading
    /\ sinceLogout
    /\ authEvent.kind = "loginFailed"
    /\ ~isAuthenticated

\* C2: after a logout and until the next accepted login, isAuthenticated() and
\* the context flag are false, and every request issued in that period carries
\* no Authorization header.
C2_LogoutClearsCredential ==
    /\ sinceLogout =>
          /\ ~authServiceIsAuthenticated(token)
          /\ (~authIsLoading => ~isAuthenticated)
    /\ \A i \in 1..Len(net) : net[i].sinceLogout => ~HasAuthorization(net[i].headers)

\* a handler that was waiting across the logout has issued its next request
C2_Witness ==
    /\ sinceLogout
    /\ \E i \in 1..Len(net) : net[i].sinceLogout /\ net[i].op = "getRuns"

\* C3: every request carries Authorization: Bearer <token> with the token
\* stored when it was issued, and no Authorization header when none was stored.
C3_BearerOfTokenAtIssue ==
    \A i \in 1..Len(net) :
        IF net[i].tokenAtIssue # Absent
        THEN /\ HasAuthorization(net[i].headers)
             /\ net[i].headers["Authorization"] = Bearer(net[i].tokenAtIssue)
        ELSE ~HasAuthorization(net[i].headers)

\* a request issued under one token is still in flight after a logout and a
\* login that stored another token while a second request carries the new one
C3_Witness ==
    /\ token = "t2"
    /\ \E i \in 1..Len(net) : net[i].tokenAtIssue = "t1"

AuthFailureReported ==
    \/ authEvent.kind = "failed" /\ authEvent.status = StatusUnauthorized
    \/ authEvent.kind = "rejectedLocally"

\* C4: a request that reports an authentication failure (a 401 response, or
\* the client-side 'authorization required' rejection) destroys the session.
C4_AuthFailureDestroysSession ==
    AuthFailureReported => (token = Absent /\ ~isAuthenticated)

\* C5: right after an accepted login the response's access_token, a non-empty
\* string, is what is stored, and isAuthenticated() and the flag are true.
C5_AcceptedLoginAuthenticates ==
    authEvent.kind = "loginOk" =>
        /\ token = authEvent.tok
        /\ token # Absent /\ token # ""
        /\ authServiceIsAuthenticated(token)
        /\ isAuthenticated

C5_Witness ==
    /\ authEvent.kind = "loginOk"
    /\ authEvent.tok = "t2"
    /\ sinceLogout = FALSE
    /\ Len(net) > 0

-----------------------------------------------------------------------------
(* Home view claims *)

ParamNames(model) == {model.parameters[j].name : j \in 1..Len(model.parameters)}

\* C6 (HomeSpec): after the selection is switched to model B the parameter
\* mapping has exactly B's parameter names as keys and each holds B's declared
\* default, whatever was edited under the model left behind.
C6_SwitchResetsToDefaults ==
    homeEvent.kind = "modelChange" =>
        LET B == Find(modelOptions, homeEvent.name) IN
        /\ selectedModel = homeEvent.name
        /\ B # NotFound
        /\ DOMAIN paramValues = ParamNames(B)
        /\ \A j \in 1..Len(B.parameters) :
              paramValues[B.parameters[j].name] =
                 (IF B.parameters[j].default.type \in {"null", "undefined"}
                  THEN "" ELSE String(B.parameters[j].default))

\* switched from linear_regression, with edited values, to ridge
C6_Witness ==
    /\ homeEvent.kind = "modelChange"
    /\ homeEvent.name = "ridge"
    /\ homeEvent.value = "linear_regression"
    /\ homeEvent.id = 2
    /\ paramValues["alpha"] = "0.5"

\* C7 (HomeSpec): an edit of parameter p to v makes the serialized mapping hold
\* v for p and leaves every other entry as it was.
C7_EditChangesOnlyP ==
    [][homeEvent'.kind = "paramChange" =>
          LET p == homeEvent'.name
              before == buildHyperparameters(paramValues)
              after == buildHyperparameters(paramValues')
          IN  /\ DOMAIN after = DOMAIN before \cup {p}
              /\ after[p] = homeEvent'.value
              /\ \A q \in DOMAIN before \ {p} : after[q] = before[q]]_vars

\* two edits in a row: both edited values are in the mapping
C7_Witness ==
    /\ homeEvent.kind = "paramChange"
    /\ selectedModel = "linear_regression"
    /\ DOMAIN paramValues = {"alpha", "fit_intercept"}
    /\ paramValues["alpha"] = "2"
    /\ paramValues["fit_intercept"] = "false"

ResolvableModel(name) == name # "" /\ Find(modelOptions, name) # NotFound

\* C8 (HomeSpec): createRun is called only with a selected dataset and a model
\* that resolves in the loaded list; a submission without them calls nothing
\* and sets a validation message.
C8_SubmitValidatedBeforeCall ==
    /\ homeEvent.kind = "createSent" =>
          /\ datasetId # "" /\ ResolvableModel(selectedModel)
          /\ submitPc = "creating" /\ createReq.sent
    /\ submitPc = "creating" => createReq.sent
    /\ createReq.sent =>
          /\ createReq.dataset_id \in {datasets[j].id : j \in 1..Len(datasets)}
          /\ ResolvableModel(createReq.configuration.model)
    /\ homeEvent.kind = "submitRejected" =>
          /\ datasetId = "" \/ ~ResolvableModel(selectedModel)
          /\ error \in {MsgSelectDataset, MsgSelectModel}
          /\ submitPc = "idle" /\ ~isLoading

\* a submission without a dataset, before any createRun was ever sent
C8_Witness ==
    /\ homeEvent.kind = "submitRejected"
    /\ datasetId = ""
    /\ error = MsgSelectDataset
    /\ ~createReq.sent
    /\ submitPc = "idle"

\* the generic failure messages: the handler's own and the gateway's
GenericDownloadMessages(kind) == {MsgDownloadFailed(kind), MsgArtifactFallback}

\* C9 (ArtifactSpec), as stated: a 404 from an artifact endpoint yields the
\* run's 'not yet available' message and a 500 yields the generic failure message.
C9_Original ==
    homeEvent.kind = "downloadFailed" =>
        /\ homeEvent.status = StatusNotFound =>
              /\ error = MsgNotYetAvailable(homeEvent.name, homeEvent.id)
              /\ error \notin GenericDownloadMessages(homeEvent.name)
        /\ homeEvent.status = StatusServerError =>
              error \in GenericDownloadMessages(homeEvent.name)

\* C9 (ArtifactSpec), amended: a 404 yields the run's 'not yet available'
\* message; a 500 yields the error's own message, which is the server's detail
\* when the response has one and a generic failure message only otherwise,
\* and never the 'not yet available' message.
C9_NotFoundVersusOtherFailures ==
    homeEvent.kind = "downloadFailed" =>
        /\ homeEvent.status = StatusNotFound =>
              /\ error = (IF homeEvent.name = "model"
                          THEN "Model dlya zapuska #2 poka ne dostupna"
                          ELSE "Rezultaty dlya zapuska #2 poka ne dostupny")
              /\ error \notin GenericDownloadMessages(homeEvent.name)
        /\ homeEvent.status = StatusServerError =>
              /\ error = (IF homeEvent.value # "" THEN homeEvent.value
                          ELSE MsgArtifactFallback)
              /\ homeEvent.value = "" => error \in GenericDownloadMessages(homeEvent.name)
              /\ error # MsgNotYetAvailable(homeEvent.name, homeEvent.id)

\* the results of completed run 2 answered 404
C9_Witness ==
    /\ homeEvent.kind = "downloadFailed"
    /\ homeEvent.status = StatusNotFound
    /\ homeEvent.name = "results"
    /\ homeEvent.id = 2
    /\ error = "Rezultaty dlya zapuska #2 poka ne dostupny"

\* C10 (HomeSpec): when createRun succeeds the dataset selection is cleared, the
\* success message names the run's id and status, and the submission has
\* exactly one run-list reload in flight from then until its in-flight flag
\* is cleared.
C10_SuccessThenOneReload ==
    /\ homeEvent.kind = "createOk" =>
          /\ datasetId = ""
          /\ success = "Zapusk #" \o NatToString(homeEvent.id) \o " sozdan so statusom \""
                          \o homeEvent.name \o "\""
          /\ submitPc = "reloading"
          /\ isLoadingRuns
    /\ Count(runsReqs, "submit") = (IF submitPc = "reloading" THEN 1 ELSE 0)
    /\ submitPc # "idle" <=> isLoading

\* run 3 was created while the mount's run-list request is still in flight
C10_Witness ==
    /\ homeEvent.kind = "createOk"
    /\ homeEvent.id = 3
    /\ success = "Zapusk #3 sozdan so statusom \"in queue\""
    /\ runsReqs = <<"mount", "submit">>
    /\ isLoading

-----------------------------------------------------------------------------
(* Submission failure, defaults and serialization *)

\* C11 (HomeSpec): when createRun fails, the error shown is the message the
\* gateway threw (the server's detail, or createRun's fallback), and the step
\* commits nothing else: datasetId, selectedModel, paramValues and runs stay as
\* they were, no success message is set and no run-list reload is issued.
C11_FailedCreateCommitsNothing ==
    [][submitPc = "creating" /\ submitPc' = "idle" =>
          /\ homeEvent'.kind = "createFailed"
          /\ error' = (IF homeEvent'.value # "" THEN homeEvent'.value
                       ELSE "Ne udalos sozdat zapusk")
          /\ success' = ""
          /\ datasetId' = datasetId
          /\ selectedModel' = selectedModel
          /\ paramValues' = paramValues
          /\ runs' = runs
          /\ runsReqs' = runsReqs
          /\ ~isLoading']_vars

\* createRun was refused with a detail while dataset 1 stays selected
C11_Witness ==
    /\ homeEvent.kind = "createFailed"
    /\ homeEvent.value = "detail from server"
    /\ error = "detail from server"
    /\ datasetId = "1"
    /\ selectedModel = "ridge"
    /\ success = ""
    /\ runsReqs = <<>>

\* the string a parameter's default is shown as
DefaultText(param) ==
    IF param.default \in {Null, Undefined} THEN "" ELSE String(param.default)

\* values has one key per declared parameter of model, each holding its default
HoldsDefaults(values, model) ==
    /\ DOMAIN values = ParamNames(model)
    /\ \A j \in 1..Len(model.parameters) :
          values[model.parameters[j].name] = DefaultText(model.parameters[j])

\* C12 (DefaultsSpec): buildDefaultValues of a model specification has exactly
\* one key per declared parameter name, holding the string form of the
\* parameter's default, or '' when the default is null or undefined; for an
\* absent model it is the empty mapping.
C12_DefaultsPerParameter ==
    fnPc = "done" =>
        IF fnArg = NotFound
        THEN fnResult = EmptyObject
        ELSE HoldsDefaults(fnResult, fnArg)

\* a model with a null default and the default 12.0
C12_Witness ==
    /\ fnPc = "done"
    /\ fnArg # NotFound
    /\ Len(fnArg.parameters) = 2
    /\ fnArg.parameters[1].default = Null
    /\ fnArg.parameters[2].default = Num(120)
    /\ fnResult[fnArg.parameters[1].name] = ""
    /\ fnResult[fnArg.parameters[2].name] = "12"

\* C13 (HomeSpec): every value of paramValues is a string in every reachable
\* state, and the hyperparameters createRun is handed are the mapping as it is
\* at the submission, key for key, so they are strings on the wire.
C13_StringsCopiedToWire ==
    /\ \A k \in DOMAIN paramValues : paramValues[k] \in STRING
    /\ homeEvent.kind = "createSent" =>
          /\ \A k \in DOMAIN createReq.configuration.hyperparameters :
                createReq.configuration.hyperparameters[k] \in STRING
          /\ createReq.configuration.hyperparameters = paramValues

\* ridge submitted with alpha typed in and solver left at its empty default
C13_Witness ==
    /\ homeEvent.kind = "createSent"
    /\ createReq.configuration.model = "ridge"
    /\ createReq.configuration.hyperparameters["alpha"] = "2"
    /\ createReq.configuration.hyperparameters["solver"] = ""

\* linear_regression was submitted and alpha holds nothing the number field
\* can take from the keyboard: it was not edited
DefaultAlphaSubmitted ==
    /\ homeEvent.kind = "createSent"
    /\ createReq.configuration.model = "linear_regression"
    /\ Find(modelOptions, "linear_regression").parameters[1].default = Num(10)
    /\ createReq.configuration.hyperparameters["alpha"] \notin NumberInputs

\* C14 as stated: linear_regression's alpha, default 1.0, submitted unedited
\* is sent as the string "1.0".
C14_Original ==
    DefaultAlphaSubmitted => createReq.configuration.hyperparameters["alpha"] = "1.0"

\* C14 (HomeSpec): linear_regression's alpha, default 1.0, submitted unedited is
\* sent as the string "1", which is String(1.0).
C14_DefaultAlphaSentAsOne ==
    DefaultAlphaSubmitted => createReq.configuration.hyperparameters["alpha"] = "1"

\* linear_regression submitted for dataset 1 with alpha as loaded
C14_Witness ==
    /\ DefaultAlphaSubmitted
    /\ createReq.dataset_id = 1
    /\ createReq.configuration.hyperparameters["alpha"] = "1"
    /\ paramValues["alpha"] = "1"

\* C15 (HomeSpec): when the model list arrives non-empty, the selected model is
\* the one selected before if the list still has it, else the first of the
\* list, and paramValues holds that model's defaults; when it arrives empty,
\* the selection is '' and paramValues is empty.
C15_ModelListLoadSelects ==
    homeEvent.kind = "modelsLoaded" =>
        IF modelOptions # <<>>
        THEN /\ selectedModel =
                   (IF \E j \in 1..Len(modelOptions) : modelOptions[j].name = homeEvent.value
                    THEN homeEvent.value ELSE modelOptions[1].name)
             /\ Find(modelOptions, selectedModel) # NotFound
             /\ HoldsDefaults(paramValues, Find(modelOptions, selectedModel))
        ELSE selectedModel = "" /\ paramValues = EmptyObject

\* the list arrived with linear_regression first and nothing selected before
C15_Witness ==
    /\ homeEvent.kind = "modelsLoaded"
    /\ homeEvent.value = ""
    /\ Len(modelOptions) = 2
    /\ selectedModel = "linear_regression"
    /\ paramValues["alpha"] = "1"
    /\ paramValues["fit_intercept"] = "true"

\* C16 (HomeSpec): the mount issues the three loaders' requests together, and
\* the completion of one, ok or failed and in any order, clears its own
\* loading flag and writes its own data, leaving the other loaders' flags,
\* data and requests as they are.
C16_LoadersIndependent ==
    /\ [](homeEvent.kind = "mount" =>
             /\ runsReqs # <<>> /\ datasetsReqs # <<>> /\ modelsReqs # <<>>
             /\ isLoadingRuns /\ isLoadingDatasets /\ isLoadingModels)
    /\ [][/\ Len(runsReqs') < Len(runsReqs) =>
                /\ ~isLoadingRuns'
                /\ UNCHANGED <<datasets, isLoadingDatasets, datasetsReqs>>
                /\ UNCHANGED <<modelOptions, selectedModel, paramValues, isLoadingModels,
                               modelsReqs>>
          /\ Len(datasetsReqs') < Len(datasetsReqs) =>
                /\ ~isLoadingDatasets'
                /\ UNCHANGED <<runs, isLoadingRuns, runsReqs, runsOvertaken>>
                /\ UNCHANGED <<modelOptions, selectedModel, paramValues, isLoadingModels,
                               modelsReqs>>
          /\ Len(modelsReqs') < Len(modelsReqs) =>
                /\ ~isLoadingModels'
                /\ UNCHANGED <<runs, isLoadingRuns, runsReqs, runsOvertaken>>
                /\ UNCHANGED <<datasets, isLoadingDatasets, datasetsReqs>>]_vars

\* the model list failed while the run list and the dataset list are pending
C16_Witness ==
    /\ homeEvent.kind = "modelsFailed"
    /\ ~isLoadingModels
    /\ isLoadingRuns /\ runsReqs = <<"mount">>
    /\ isLoadingDatasets /\ datasetsReqs = <<"mount">>

-----------------------------------------------------------------------------
(* User-first loading, failures and retries, uploads *)

\* C17 (PagesSpec): in the Datasets view and the user-first Home view a
\* dataset-list request is on the wire only after the current-user request
\* succeeded; when the current-user request fails no dataset-list request is
\* issued, the error is set and isLoadingDatasets is cleared.
C17_UserBeforeDatasets ==
    /\ datasetsReqs # <<>> => userId # NoUser /\ userReqs = <<>>
    /\ userId = NoUser => datasets = <<>>
    /\ homeEvent.kind = "userFailed" =>
          /\ datasetsReqs = <<>>
          /\ ~isLoadingDatasets
          /\ error = (IF mounted = "Datasets"
                      THEN "Ne udalos zagruzit informatsiyu o polzovatele: "
                      ELSE "Ne udalos zagruzit dannye: ")
                     \o (IF homeEvent.value # "" THEN homeEvent.value
                         ELSE "Ne udalos poluchit informatsiyu o polzovatele")

\* the Datasets view could not load the current user
C17_Witness ==
    /\ mounted = "Datasets"
    /\ homeEvent.kind = "userFailed"
    /\ userId = NoUser
    /\ datasetsReqs = <<>>
    /\ ~isLoadingDatasets
    /\ error = "Ne udalos zagruzit informatsiyu o polzovatele: detail from server"

FailureKinds ==
    {"runsFailed", "datasetsFailed", "modelsFailed", "createFailed", "userFailed",
     "uploadFailed"}

HomeInFlight ==
    Len(runsReqs) + Len(datasetsReqs) + Len(modelsReqs)
        + (IF submitPc = "creating" THEN 1 ELSE 0)

\* C19 (HomeSpec): a step that ends a request in failure issues no request;
\* a request goes on the wire only at the mount, at a refresh, at a submission
\* or as the one reload after a created run, and one per operation at a time.
C19_NoAutomaticRetry ==
    [][/\ homeEvent'.kind \in FailureKinds => HomeInFlight' = HomeInFlight - 1
       /\ Len(runsReqs') > Len(runsReqs) =>
             /\ Len(runsReqs') = Len(runsReqs) + 1
             /\ homeEvent'.kind \in {"mount", "refresh", "createOk"}
       /\ Len(datasetsReqs') > Len(datasetsReqs) =>
             /\ Len(datasetsReqs') = Len(datasetsReqs) + 1
             /\ homeEvent'.kind = "mount"
       /\ Len(modelsReqs') > Len(modelsReqs) =>
             /\ Len(modelsReqs') = Len(modelsReqs) + 1
             /\ homeEvent'.kind = "mount"
       /\ submitPc # "creating" /\ submitPc' = "creating" =>
             homeEvent'.kind = "createSent"]_vars

\* the run list failed to load and nothing is on the wire afterwards
C19_Witness ==
    /\ homeEvent.kind = "runsFailed"
    /\ homeEvent.name = "refresh"
    /\ runsReqs = <<>>
    /\ submitPc = "idle"
    /\ ~isLoadingRuns
    /\ error = "Ne udalos zagruzit spisok zapuskov: Ne udalos poluchit spisok zapuskov"

\* C20 (PagesSpec): in the Datasets view no upload is issued with a file whose
\* name does not end in .csv: choosing such a file sets the error and leaves no
\* file chosen, and a submission without a file issues no call.
C20_UploadOnlyCsv ==
    /\ file # Null => endsWith(file.name, ".csv")
    /\ createReq.sent => endsWith(createReq.file.name, ".csv")
    /\ (/\ homeEvent.kind = "fileChange"
        /\ homeEvent.value # "none"
        /\ ~endsWith(homeEvent.name, ".csv")) =>
          file = Null /\ error = "Pozhaluista, vyberite CSV fail"
    /\ homeEvent.kind = "uploadSent" => file # Null /\ createReq.file = file
    /\ homeEvent.kind = "uploadRejected" => submitPc = "idle" /\ ~isLoading
    /\ submitPc = "uploading" => createReq.sent

\* notes.txt was refused earlier and the form is submitted with a name only
C20_Witness ==
    /\ homeEvent.kind = "uploadRejected"
    /\ homeEvent.value = "Vyberite CSV fail"
    /\ datasetName = "Sales"
    /\ userId # NoUser
    /\ file = Null
    /\ error = "Vyberite CSV fail"
    /\ ~createReq.sent

-----------------------------------------------------------------------------
\* C21 (Spec): a protected view (Home, Datasets) is rendered only while the
\* session is authenticated and the initial check is over; an unauthenticated
\* visit of a protected path after the check renders the redirect to /login
\* and an authenticated visit of /login or /register the redirect to /; a
\* redirect to /login starts at a protected path of an unauthenticated
\* session, and a redirect leaves the router at its target.
C21_ProtectedOnlyWhileAuthenticated ==
    /\ Element \in {Page("Home"), Page("Datasets")}
         => isAuthenticated /\ ~authIsLoading /\ location \in ProtectedPaths
    /\ (location \in ProtectedPaths /\ ~authIsLoading /\ ~isAuthenticated)
         => Element = Navigate("/login")
    /\ (location \in {"/login", "/register"} /\ isAuthenticated)
         => Element = Navigate("/")
    /\ authEvent.kind = "redirect"
         => /\ location = authEvent.msg
            /\ authEvent.msg = "/login"
                 => authEvent.op \in ProtectedPaths /\ ~isAuthenticated /\ ~authIsLoading
            /\ (authEvent.msg = "/" /\ authEvent.op \in {"/login", "/register"})
                 => isAuthenticated

\* an unauthenticated visit of /datasets has been redirected to /login, where
\* the Login page is rendered
C21_Witness ==
    /\ authEvent = Event("redirect", "/datasets", 0, Absent, "/login")
    /\ ~isAuthenticated
    /\ Element = Page("Login")

-----------------------------------------------------------------------------
\* C22 (SessionLiveSpec): a page load with a stored token leads, with no login
\* in between, to the authenticated state set by the provider's mount effect;
\* while the initial check runs a protected path renders the loading
\* placeholder, and no step taken during the check redirects it to /login.
C22_SessionPersistsAcrossReload ==
    /\ [](authIsLoading /\ location \in ProtectedPaths => Element = Placeholder)
    /\ [][(authIsLoading /\ location \in ProtectedPaths)
            => /\ ~(authEvent'.kind = "redirect" /\ location' = "/login")
               /\ authEvent'.op # "login"]_vars
    /\ (authIsLoading /\ token # Absent)
         ~> (isAuthenticated /\ ~authIsLoading /\ authEvent.kind = "mount")

\* after a page load at /datasets with a stored token the Datasets view is
\* rendered, the mount effect being the last step
C22_Witness ==
    /\ token # Absent
    /\ authEvent.kind = "mount"
    /\ isAuthenticated
    /\ location = "/datasets"
    /\ Element = Page("Datasets")

-----------------------------------------------------------------------------
\* C26 (RequestsSpec): a step changes the stored token only as an accepted
\* login, which stores one, or as a logout, which removes it; a step that
\* changes the authenticated flag is an accepted login, a logout or a page
\* load with its initial check.  A rejected login, a registration response,
\* and every step of the Home and Datasets handlers (loaders, submission,
\* upload, download) leave both unchanged.
C26_TokenChangedOnlyByLoginAndLogout ==
    [][/\ token' # token
            => \/ authEvent'.kind = "loginOk" /\ token' \in AccessTokens /\ isAuthenticated'
               \/ authEvent'.kind = "logout" /\ token' = Absent /\ ~isAuthenticated'
       /\ isAuthenticated' # isAuthenticated
            => authEvent'.kind \in {"loginOk", "logout", "init", "mount"}
       /\ (authEvent' # authEvent /\ authEvent'.kind \in {"loginFailed", "registerOk", "registerFailed"})
            => UNCHANGED <<token, isAuthenticated>>
       /\ (homeVars' # homeVars \/ pageVars' # pageVars)
            => UNCHANGED <<token, isAuthenticated>>]_vars

\* a registration was accepted while a token is stored: the token of a login
\* made while the registration was in flight
C26_Witness ==
    /\ authEvent.kind = "registerOk"
    /\ token \in AccessTokens
    /\ isAuthenticated

-----------------------------------------------------------------------------
\* C25 (ArtifactSpec): a download request is issued only for a run that the
\* displayed run list holds with status completed; while a run is displayed
\* as in queue, processing or failed no request for it is issued.
C25_DownloadOnlyCompleted ==
    /\ [](homeEvent.kind = "downloadSent"
            => /\ ~isLoadingRuns
               /\ \E i \in 1..Len(runs) : runs[i].id = homeEvent.id
               /\ \A i \in 1..Len(runs) :
                     runs[i].id = homeEvent.id => runs[i].status = "completed")
    /\ [][downloads' # downloads /\ Len(downloads') > Len(downloads)
            => /\ homeEvent'.kind = "downloadSent"
               /\ \E i \in 1..Len(runs) :
                     /\ runs[i] = Run(homeEvent'.id, "completed")
                     /\ downloads' = Append(downloads, [kind |-> homeEvent'.name, runId |-> runs[i].id])]_vars

\* a download of run 2 was issued from a list that also shows runs in queue,
\* processing and failed
C25_Witness ==
    /\ homeEvent.kind = "downloadSent"
    /\ homeEvent.id = 2
    /\ {runs[i].status : i \in 1..Len(runs)} = {"in queue", "processing", "completed", "failed"}

-----------------------------------------------------------------------------
\* C27 (HomeSpec): the keys of paramValues are the parameter names of the
\* selected model's specification, and there are none while no model of the
\* list is selected; the hyperparameters of a createRun call have exactly the
\* parameter names that the list declares for configuration.model.
C27_ParamKeysAreDeclaredNames ==
    /\ DOMAIN paramValues = (IF selectedModelSpec = NotFound THEN {}
                             ELSE ParamNames(selectedModelSpec))
    /\ homeEvent.kind = "createSent"
         => LET declared == Find(modelOptions, createReq.configuration.model) IN
            /\ declared # NotFound
            /\ DOMAIN createReq.configuration.hyperparameters = ParamNames(declared)

\* ridge was selected after an edit under linear_regression, edited itself and
\* submitted
C27_Witness ==
    /\ homeEvent.kind = "createSent"
    /\ createReq.configuration.model = "ridge"
    /\ DOMAIN createReq.configuration.hyperparameters = {"alpha", "solver"}
    /\ createReq.configuration.hyperparameters["alpha"] = "2"

-----------------------------------------------------------------------------
\* C28 (HomeSpec): from the createRun call until the reload of the run list
\* has finished, the submission is in flight with isLoading true, which
\* disables the submit control; a step that calls createRun starts with no
\* submission in flight, so at most one createRun call is outstanding.
C28_OneSubmissionAtATime ==
    /\ [](submitPc # "idle" => isLoading /\ createReq.sent)
    /\ [](submitPc = "reloading" => runsReqs # <<>>)
    /\ [][homeEvent'.kind = "createSent"
            => /\ submitPc = "idle"
               /\ ~isLoading
               /\ submitPc' = "creating"
               /\ isLoading']_vars
    /\ [][submitPc # "idle" => createReq' = createReq]_vars

\* the form is filled in again while the reload after a submission is still
\* running: the control is disabled
C28_Witness ==
    /\ submitPc = "reloading"
    /\ isLoading
    /\ datasetId # ""
    /\ homeEvent.kind = "datasetChange"
    /\ ~SubmitEnabled

-----------------------------------------------------------------------------
\* the flag half of C29: isLoadingRuns is true while a run-list request is in
\* flight
RunsFlagCoversRequests == runsReqs # <<>> => isLoadingRuns

\* the order half of C29: the response that leaves no run-list request in
\* flight, and is applied, is the response of the most recently issued one
LastAppliedIsLatestIssued ==
    (runsReqs # <<>> /\ runsReqs' = <<>> /\ homeEvent'.kind = "runsLoaded")
        => runsOvertaken = 0

\* C29 (RunsSpec), as stated: when run-list requests overlap, once all of them
\* have completed the displayed list is the response of the most recently
\* issued request, and isLoadingRuns is true for as long as any run-list
\* request is in flight.
C29_LatestRunListWins ==
    /\ []RunsFlagCoversRequests
    /\ [][LastAppliedIsLatestIssued]_vars

-----------------------------------------------------------------------------
\* C30 (RunsSpec), as stated: the success message and the error message of
\* the view are never both non-empty, a failed list reload right after a
\* successful submission included.
C30_SuccessAndErrorExclusive == ~(success # "" /\ error # "")

-----------------------------------------------------------------------------
\* C24 (ConfigSpec): in the user-first Home view a configuration text that is
\* not blank and not valid JSON is rejected with the validation message and
\* no createRun call; a blank text is submitted as the empty mapping and any
\* other text as its parsed value; after a successful submission the
\* configuration text is '{}' again.
C24_ConfigurationValidated ==
    /\ [](homeEvent.kind = "createSent"
            => IF trim(homeEvent.value) = ""
               THEN createReq.configuration = JObject(EmptyObject)
               ELSE /\ JSONparse(homeEvent.value).ok
                    /\ createReq.configuration = JSONparse(homeEvent.value).value)
    /\ [](homeEvent.kind = "configurationRejected"
            => /\ ~JSONparse(homeEvent.value).ok
               /\ error = MsgInvalidConfiguration
               /\ submitPc = "idle"
               /\ ~isLoading)
    /\ [](homeEvent.kind = "createOk" => configuration = "{}")
    /\ [][(trim(configuration) # "" /\ ~JSONparse(configuration).ok)
            => /\ createReq' = createReq
               /\ submitPc' # "creating" \/ submitPc = "creating"]_vars

\* a submission with unquoted keys was refused before any request
C24_Witness ==
    /\ homeEvent = HEvent("configurationRejected", "", "{epochs: 5}", 0, 0)
    /\ datasetId = "1"
    /\ error = MsgInvalidConfiguration
    /\ ~createReq.sent

-----------------------------------------------------------------------------
====
